---- MODULE Spec2Model ----
(***************************************************************************)
(* ChatFlow-server: presence registry, room session coordinator, message   *)
(* pipeline and moderation state machine, as implemented in                *)
(*   src/app.js                      (ChatroomServer, auth, Database)      *)
(*   src/unnamed/part_001            (ChatroomService)                     *)
(*   src/services/messageService.js  (MessageService)                      *)
(*   src/services/userService.js     (UserService)                         *)
(*   src/routes/chatrooms.js         (HTTP routes)                         *)
(*                                                                         *)
(* Every async handler is cut at its awaits: one action is "the awaited    *)
(* database statement executes and the synchronous code after it runs up   *)
(* to the next await".  Handlers of different requests interleave freely   *)
(* at these points, as they do on the node event loop.                     *)
(***************************************************************************)
EXTENDS Integers, Sequences, FiniteSets, TLC

\* ------------------------------------------------------------ universe

NULL == "null"
\* the absent message id (ids start at 1)
NoId == 0
\* the absent timestamp (a NULL mute_until)
NoTime == -1

\* rows of the users table (u1 created both rooms)
Users == {"u1", "u2", "u3"}
\* uids issued by createAnonymousUser
Anons == {"a1"}
Uids == Users \cup Anons
\* rows of the users table with is_banned = 1 (no code of the server sets
\* or clears the flag)
Banned == {"u4"}
\* what a client may present as its token: none, one that verifyToken
\* rejects, or a token issued to a principal
Credentials == {"missing", "invalid"} \cup Uids \cup Banned
\* rows of the chatrooms table
Rooms == {"R1", "R2"}
\* a room id no row of chatrooms carries
MissingRoom == "R0"
\* transport-level connections (sockets)
Conns == {"c1", "c2", "c3"}
\* the kinds of handler a socket can have in flight
Kinds == {"join", "leave", "disc", "send", "del", "bulk"}
\* passwords a client may supply
Passwords == {"good", "bad"}
\* text payloads a client may send: a valid one and the empty one
Contents == {"hi", ""}
\* file ids issued by the upload route
FileIds == {"f1"}
\* mute durations a moderator may ask for, in ticks
Durations == {1, 2}
\* file names and sizes a client may upload or claim
Names == {"n1", "n2"}
Sizes == {1, 2}
\* the validity of an uploaded file (30 minutes), in clock steps
fileValidity == 2
\* config.anonymous.muteDuration, in ticks
muteDuration == 1
\* config.anonymous.sessionExpiry, in ticks
sessionExpiry == 2

\* ------------------------------------------------------------ bounds

\* client events (socket events, HTTP requests) issued in one run
MaxCalls == 3
\* last instant of the clock
MaxTime == 3

\* ------------------------------------------------------------ state

VARIABLES
  now,              \* Date.now(), in abstract ticks
  chatrooms,        \* chatrooms table: room -> row
  chatroom_members, \* chatroom_members table: <<room, uid>> -> row or NoRow
  chatroom_admins,  \* chatroom_admins table: set of <<room, uid>>
  user_mutes,       \* user_mutes table: rows in creation order
  anonymous_users,  \* anonymous_users table: uid -> row or NoRow
  messages,         \* messages table: set of rows
  files,            \* files table: file_id -> row or NoRow
  nextId,           \* AUTOINCREMENT of messages.id
  tx,               \* the shared sqlite connection's open transaction
  onlineUsers,      \* ChatroomServer.onlineUsers: room -> Set (insertion order)
  userSockets,      \* ChatroomServer.userSockets: uid -> socket or NULL
  socks,            \* the sockets: state, user, currentRoom, socket.io rooms
  hs,               \* handlers in flight: socket -> kind -> frame
  emitted,          \* every event emitted so far, in order
  calls,            \* client events issued so far
  hist              \* history of completed requests (observation only)

dbVars == <<chatrooms, chatroom_members, chatroom_admins, user_mutes,
            anonymous_users, messages, files, nextId, tx>>
memVars == <<onlineUsers, userSockets, socks, hs>>
vars == <<now, dbVars, memVars, emitted, calls, hist>>

NoRow == [none |-> TRUE]

\* ------------------------------------------------------------ helpers

Contains(s, x) == \E i \in 1..Len(s) : s[i] = x

SeqRemove(s, x) == SelectSeq(s, LAMBDA y : y # x)

\* a join that rebuilds the room's Set from its own uid
SetAddRebuild(s, x) == <<x>>

\* Set.prototype.add keeps insertion order and ignores a member
SetAdd(s, x) == IF Contains(s, x) THEN s ELSE Append(s, x)

SeqToSet(s) == {s[i] : i \in 1..Len(s)}

Occurrences(s, x) == Cardinality({i \in 1..Len(s) : s[i] = x})

IdleFrame == [pc |-> "idle", room |-> NULL, iter |-> <<>>, list |-> <<>>, att |-> FALSE]

\* ------------------------------------------------------------ durable store reads

\* SELECT ... FROM chatrooms WHERE room_id = ? AND is_active = 1
ActiveRoom(r) == r \in Rooms /\ chatrooms[r].is_active

\* a getChatroomInfo whose query leaves out AND is_active = 1
getChatroomInfoAnyRow(r) == r \in Rooms

\* ChatroomService.getChatroomInfo: throws unless the room is active
getChatroomInfoOk(r) == ActiveRoom(r)

\* ChatroomService.checkAdminPermission
checkAdminPermission(uid, r) ==
  \/ (r \in Rooms /\ chatrooms[r].creator_uid = uid)
  \/ <<r, uid>> \in chatroom_admins

\* utils.isUserMuted(muteUntil): a mute is in force strictly before muteUntil
isUserMuted(muteUntil) == muteUntil # NoTime /\ now < muteUntil

\* utils.getMuteTimeRemaining(muteUntil): Math.max(0, muteUntil - now)
getMuteTimeRemaining(muteUntil) ==
  IF muteUntil = NoTime THEN 0
  ELSE IF muteUntil > now THEN muteUntil - now ELSE 0

\* the row the query of checkUserMuted returns: the most recently created
\* active record (ORDER BY created_at DESC LIMIT 1), or NULL
ActiveMuteIdx(uid, r) ==
  {i \in 1..Len(user_mutes) :
     /\ user_mutes[i].chatroom_id = r
     /\ user_mutes[i].user_uid = uid
     /\ user_mutes[i].is_active}

\* the query with ORDER BY created_at ASC: the oldest active record
OldestMute(uid, r) ==
  IF ActiveMuteIdx(uid, r) = {} THEN NoTime
  ELSE user_mutes[CHOOSE i \in ActiveMuteIdx(uid, r) :
                    \A j \in ActiveMuteIdx(uid, r) : i <= j].mute_until

\* the query with ORDER BY mute_until DESC: the active record that ends last
LongestMute(uid, r) ==
  IF ActiveMuteIdx(uid, r) = {} THEN NoTime
  ELSE user_mutes[CHOOSE i \in ActiveMuteIdx(uid, r) :
                    \A j \in ActiveMuteIdx(uid, r) :
                      user_mutes[j].mute_until <= user_mutes[i].mute_until].mute_until

LatestMute(uid, r) ==
  IF ActiveMuteIdx(uid, r) = {} THEN NoTime
  ELSE user_mutes[CHOOSE i \in ActiveMuteIdx(uid, r) :
                    \A j \in ActiveMuteIdx(uid, r) : j <= i].mute_until

\* anonymous_users WHERE uid = ? AND chatroom_id = ? AND is_active = 1
AnonMuteUntil(uid, r) ==
  IF /\ uid \in Anons
     /\ anonymous_users[uid] # NoRow
     /\ anonymous_users[uid].chatroom_id = r
     /\ anonymous_users[uid].is_active
  THEN anonymous_users[uid].mute_until
  ELSE NoTime

\* ChatroomService.checkUserMuted(uid, roomId).isMuted
checkUserMuted(uid, r) ==
  \/ isUserMuted(LatestMute(uid, r))
  \/ isUserMuted(AnonMuteUntil(uid, r))

\* ------------------------------------------------------------ presence registry

\* the socket userSockets holds for uid, if any
HasSocket(uid) == userSockets[uid] # NULL

\* getOnlineUserList pushes an entry only for a uid that has a socket; the
\* loop passes over the others without awaiting
RECURSIVE SkipGhosts(_)
SkipGhosts(it) ==
  IF it = <<>> THEN <<>>
  ELSE IF HasSocket(Head(it)) THEN it
  ELSE SkipGhosts(Tail(it))

\* a getOnlineUserList that passes over anonymous principals whose record
\* is not active
ListOnlineActive(r) ==
  SelectSeq(onlineUsers[r], LAMBDA u :
    /\ HasSocket(u)
    /\ u \in Anons => (anonymous_users[u] # NoRow /\ anonymous_users[u].is_active))

\* ChatroomServer.getOnlineUserList(roomId) computed on the current state
\* (the list a run of it with no interleaved handler returns)
ListOnline(r) == SelectSeq(onlineUsers[r], LAMBDA u : HasSocket(u))

\* the sockets socket.to(room) reaches: the members of the socket.io room
\* except the sender
RoomPeers(r, c) == {d \in Conns \ {c} : socks[d].state = "open" /\ r \in socks[d].rooms}

\* io.to(room): every member of the socket.io room
RoomAll(r) == {d \in Conns : socks[d].state = "open" /\ r \in socks[d].rooms}

Event(type, r, uid, list, to) ==
  [type |-> type, room |-> r, uid |-> uid, list |-> list, to |-> to]

\* a uid was added to the Set of room r: every live iterator of that Set
\* will reach it
IterAdded(f, r, uid) ==
  IF f.pc = "list" /\ f.room = r /\ f.att
  THEN [f EXCEPT !.iter = Append(@, uid)]
  ELSE f

\* a uid was deleted from the Set of room r (and the Set dropped from the
\* map when it became empty): live iterators no longer reach it
IterDeleted(f, r, uid, dropped) ==
  IF f.pc = "list" /\ f.room = r /\ f.att
  THEN [f EXCEPT !.iter = IF dropped THEN <<>> ELSE SeqRemove(@, uid),
                 !.att = ~dropped]
  ELSE f

\* ------------------------------------------------------------ sockets

uidOf(c) == socks[c].uid

InFlight(c) == \E k \in Kinds : hs[c][k].pc # "idle"

\* hist.raced[c]: a handler of c was started while another handler of c was
\* still in flight
NoteCall(c) == [hist EXCEPT !.raced[c] = @ \/ InFlight(c)]

\* a getUserInfo whose query leaves out AND is_banned = 0
getUserInfoAnyRow(u) == u \in Users \cup Banned

\* UserService.getUserInfo: throws unless users has an unbanned row of u
getUserInfoOk(u) == u \in Users

\* UserService.getAnonymousUserInfo: its outcome
getAnonymousUserInfo(a) ==
  IF anonymous_users[a] = NoRow \/ ~anonymous_users[a].is_active
  THEN "PrincipalNotFound"
  ELSE IF now - anonymous_users[a].join_time > sessionExpiry
  THEN "AnonymousSessionExpired"
  ELSE "ok"

\* the authentication middlewares (io.use, authenticateToken): the outcome
\* of resolving a credential
resolve(cred) ==
  IF cred = "missing" THEN "MissingCredential"
  ELSE IF cred = "invalid" THEN "InvalidCredential"
  ELSE IF cred \in Anons THEN getAnonymousUserInfo(cred)
  ELSE IF getUserInfoOk(cred) THEN "ok"
  ELSE "PrincipalNotFound"

\* a getAnonymousUserInfo that throws on an expired session without
\* deactivating the record
resolveKeepsRecord(cred) == anonymous_users

\* getAnonymousUserInfo, its write: deactivateAnonymousUser on an expired
\* session
resolveStore(cred) ==
  IF cred \in Anons /\ getAnonymousUserInfo(cred) = "AnonymousSessionExpired"
  THEN [anonymous_users EXCEPT ![cred].is_active = FALSE]
  ELSE anonymous_users

\* Socket.IO authentication middleware and io.on('connection'): the principal
\* is re-read from the store, then userSockets.set(uid, socket)
Connect(c, u) ==
  /\ socks[c].state = "new"
  /\ resolve(u) = "ok"
  /\ socks' = [socks EXCEPT ![c] = [state |-> "open", uid |-> u,
                                    currentRoom |-> NULL, rooms |-> {}]]
  /\ userSockets' = [userSockets EXCEPT ![u] = c]
  /\ UNCHANGED <<now, dbVars, onlineUsers, hs, emitted, calls, hist>>

\* one pass of the loop of getOnlineUserList from the iterator position
\* iter0 with list0 pushed so far: the frame after it.  pc "idle": the loop
\* ended and the list is returned; pc "list": an entry was pushed and the
\* loop awaits; pc "throw": getChatroomInfo threw inside the loop body
AdvanceFrame(f, iter0, list0) ==
  LET it == SkipGhosts(iter0) IN
  IF it = <<>> THEN [IdleFrame EXCEPT !.list = list0]
  ELSE IF ~getChatroomInfoOk(f.room) THEN [IdleFrame EXCEPT !.pc = "throw"]
  ELSE [pc |-> "list", room |-> f.room, iter |-> Tail(it),
        list |-> Append(list0, Head(it)), att |-> TRUE]

\* hist.last[c]: the latest completed request of c; hist.rejoined: the pairs
\* whose join, issued after a kick and not overtaken by another kick, has
\* completed
JoinDone(c, r) ==
  [hist EXCEPT !.last[c] = <<"join", r>>,
               !.rejoined = IF hist.rejoin[c] THEN @ \cup {<<r, uidOf(c)>>} ELSE @,
               !.out = @ \ {<<r, uidOf(c)>>},
               !.rejoin[c] = FALSE]

\* what the join-room handler does once getOnlineUserList has settled
JoinSettle(c, nf, r) ==
  emitted' =
    IF nf.pc = "idle"
    THEN emitted \o <<Event("user-joined", r, uidOf(c), nf.list, RoomPeers(r, c)),
                      Event("room-joined", r, uidOf(c), nf.list, {c})>>
    ELSE IF nf.pc = "throw"
    THEN Append(emitted, Event("error", r, uidOf(c), <<>>, {c}))
    ELSE emitted

StoredFrame(nf) == IF nf.pc = "list" THEN nf ELSE IdleFrame

\* socket.on('join-room'): the event arrives, getChatroomInfo is awaited
JoinRoom(c, r) ==
  /\ socks[c].state = "open"
  /\ hs[c]["join"].pc = "idle"
  /\ calls < MaxCalls
  /\ hs' = [hs EXCEPT ![c]["join"] = [IdleFrame EXCEPT !.pc = "info", !.room = r]]
  /\ calls' = calls + 1
  /\ hist' = [NoteCall(c) EXCEPT !.rejoin[c] = <<r, uidOf(c)>> \in hist.out]
  /\ UNCHANGED <<now, dbVars, onlineUsers, userSockets, socks, emitted>>

\* join-room: getChatroomInfo returned; socket.join, currentRoom, and
\* addMemberToChatroom is awaited
JoinInfo(c) ==
  LET f == hs[c]["join"] IN
  /\ f.pc = "info"
  /\ IF getChatroomInfoOk(f.room)
     THEN /\ socks' = [socks EXCEPT ![c].rooms = @ \cup {f.room},
                                    ![c].currentRoom = f.room]
          /\ hs' = [hs EXCEPT ![c]["join"].pc = "member"]
          /\ UNCHANGED emitted
     ELSE /\ emitted' = Append(emitted, Event("error", f.room, uidOf(c), <<>>, {c}))
          /\ hs' = [hs EXCEPT ![c]["join"] = IdleFrame]
          /\ UNCHANGED socks
  /\ UNCHANGED <<now, dbVars, onlineUsers, userSockets, calls, hist>>

\* an INSERT OR IGNORE: the row of an earlier membership is kept as it is
addMemberKeepsRow(r, uid) ==
  IF chatroom_members[<<r, uid>>] # NoRow THEN chatroom_members
  ELSE [chatroom_members EXCEPT ![<<r, uid>>] = [status |-> "online", is_active |-> TRUE]]

\* ChatroomService.addMemberToChatroom: INSERT OR REPLACE ... 'online', 1
addMemberToChatroom(r, uid) ==
  [chatroom_members EXCEPT ![<<r, uid>>] = [status |-> "online", is_active |-> TRUE]]

\* join-room: the membership row is written, the uid is added to the room's
\* Set and getOnlineUserList starts
JoinMember(c) ==
  LET f == hs[c]["join"]
      r == f.room
      u == uidOf(c)
      isNew == ~Contains(onlineUsers[r], u)
      set1 == SetAdd(onlineUsers[r], u)
      nf == AdvanceFrame(f, set1, <<>>)
  IN
  /\ f.pc = "member"
  /\ chatroom_members' = addMemberToChatroom(r, u)
  /\ onlineUsers' = [onlineUsers EXCEPT ![r] = set1]
  /\ hs' = [d \in Conns |-> [k \in Kinds |->
              IF d = c /\ k = "join" THEN StoredFrame(nf)
              ELSE IF isNew THEN IterAdded(hs[d][k], r, u) ELSE hs[d][k]]]
  /\ JoinSettle(c, nf, r)
  /\ hist' = IF nf.pc = "idle" THEN JoinDone(c, r) ELSE hist
  /\ UNCHANGED <<now, chatrooms, chatroom_admins, user_mutes, anonymous_users,
                 messages, files, nextId, tx, userSockets, socks, calls>>

\* join-room: one more pass of the loop of getOnlineUserList; when it ends
\* user-joined goes to the room and room-joined to the socket
JoinList(c) ==
  LET f == hs[c]["join"]
      nf == AdvanceFrame(f, f.iter, f.list)
  IN
  /\ f.pc = "list"
  /\ hs' = [hs EXCEPT ![c]["join"] = StoredFrame(nf)]
  /\ JoinSettle(c, nf, f.room)
  /\ hist' = IF nf.pc = "idle" THEN JoinDone(c, f.room) ELSE hist
  /\ UNCHANGED <<now, dbVars, onlineUsers, userSockets, socks, calls>>

\* ChatroomService.setMemberOffline: UPDATE ... SET status = 'offline'
setMemberOffline(r, uid) ==
  IF chatroom_members[<<r, uid>>] = NoRow THEN chatroom_members
  ELSE [chatroom_members EXCEPT ![<<r, uid>>].status = "offline"]

\* handleUserLeaveRoom, synchronous part: nothing unless currentRoom is set
LeaveCall(c, k) ==
  IF socks[c].currentRoom = NULL
  THEN [hs EXCEPT ![c][k] = IdleFrame]
  ELSE [hs EXCEPT ![c][k] = [IdleFrame EXCEPT !.pc = "offline",
                                              !.room = socks[c].currentRoom]]

\* socket.on('leave-room')
LeaveRoom(c) ==
  /\ socks[c].state = "open"
  /\ hs[c]["leave"].pc = "idle"
  /\ calls < MaxCalls
  /\ hs' = LeaveCall(c, "leave")
  /\ calls' = calls + 1
  /\ hist' = IF socks[c].currentRoom = NULL
             THEN [NoteCall(c) EXCEPT !.last[c] = <<"leave", NULL>>]
             ELSE NoteCall(c)
  /\ UNCHANGED <<now, dbVars, onlineUsers, userSockets, socks, emitted>>

\* socket.on('disconnect'): Socket.IO has left every room, then
\* handleUserLeaveRoom is started and userSockets.delete(uid) runs
Disconnect(c) ==
  /\ socks[c].state = "open"
  /\ calls < MaxCalls
  /\ socks' = [socks EXCEPT ![c].state = "closed", ![c].rooms = {}]
  /\ hs' = LeaveCall(c, "disc")
  /\ userSockets' = [userSockets EXCEPT ![uidOf(c)] = NULL]
  /\ calls' = calls + 1
  /\ hist' = IF socks[c].currentRoom = NULL
             THEN [NoteCall(c) EXCEPT !.last[c] = <<"leave", NULL>>]
             ELSE NoteCall(c)
  /\ UNCHANGED <<now, dbVars, onlineUsers, emitted>>

\* what handleUserLeaveRoom does once getOnlineUserList has settled:
\* user-left to the room, socket.leave, currentRoom = null.  A throw inside
\* getOnlineUserList ends the handler before any of it
LeaveSettle(c, nf, r) ==
  IF nf.pc = "idle"
  THEN /\ emitted' = Append(emitted, Event("user-left", r, uidOf(c), nf.list, RoomPeers(r, c)))
       /\ socks' = [socks EXCEPT ![c].rooms = @ \ {r}, ![c].currentRoom = NULL]
       /\ hist' = [hist EXCEPT !.last[c] = <<"leave", r>>]
  ELSE UNCHANGED <<emitted, socks, hist>>

\* handleUserLeaveRoom after setMemberOffline: the uid leaves the room's
\* Set, an empty Set is dropped from the map, getOnlineUserList starts
LeaveOffline(c, k) ==
  LET f == hs[c][k]
      r == f.room
      u == uidOf(c)
      set1 == SeqRemove(onlineUsers[r], u)
      dropped == onlineUsers[r] # <<>> /\ set1 = <<>>
      nf == AdvanceFrame(f, set1, <<>>)
  IN
  /\ f.pc = "offline"
  /\ chatroom_members' = setMemberOffline(r, u)
  /\ onlineUsers' = [onlineUsers EXCEPT ![r] = set1]
  /\ hs' = [d \in Conns |-> [j \in Kinds |->
              IF d = c /\ j = k THEN StoredFrame(nf)
              ELSE IterDeleted(hs[d][j], r, u, dropped)]]
  /\ LeaveSettle(c, nf, r)
  /\ UNCHANGED <<now, chatrooms, chatroom_admins, user_mutes, anonymous_users,
                 messages, files, nextId, tx, userSockets, calls>>

\* handleUserLeaveRoom: one more pass of the loop of getOnlineUserList
LeaveList(c, k) ==
  LET f == hs[c][k]
      nf == AdvanceFrame(f, f.iter, f.list)
  IN
  /\ f.pc = "list"
  /\ hs' = [hs EXCEPT ![c][k] = StoredFrame(nf)]
  /\ LeaveSettle(c, nf, f.room)
  /\ UNCHANGED <<now, dbVars, onlineUsers, userSockets, calls>>

\* utils.verifyPassword(password, hash)
verifyPassword(pw, hash) == pw = hash

\* ChatroomService.joinChatroom(roomId, password, userUid): its outcome
joinChatroom(r, pw, uid) ==
  IF ~ActiveRoom(r) THEN "RoomNotFound"
  ELSE IF chatrooms[r].password_hash = NULL THEN "ok"
  ELSE IF uid # NULL /\ chatrooms[r].creator_uid = uid THEN "ok"
  ELSE IF pw = NULL THEN "PasswordRequired"
  ELSE IF ~verifyPassword(pw, chatrooms[r].password_hash) THEN "InvalidPassword"
  ELSE "ok"

\* POST /join by principal p (a registered user's token; NULL without one);
\* the route answers and writes nothing
HttpJoin(p, r, pw) ==
  /\ calls < MaxCalls
  /\ calls' = calls + 1
  /\ hist' = [hist EXCEPT
       !.resp = joinChatroom(r, pw, p),
       !.pwOk = IF /\ p # NULL /\ pw # NULL /\ ActiveRoom(r)
                   /\ chatrooms[r].password_hash # NULL
                   /\ joinChatroom(r, pw, p) = "ok"
                THEN @ \cup {<<p, r>>} ELSE @]
  /\ UNCHANGED <<now, dbVars, memVars, emitted>>

\* ------------------------------------------------------------ clock and mutes

\* hist.by, hist.op, hist.target: the requester, the kind and the target of
\* the latest moderation request
Asked(by, op, target) == [hist EXCEPT !.by = by, !.op = op, !.target = target]

\* time passes
Tick ==
  /\ now < MaxTime
  /\ now' = now + 1
  /\ UNCHANGED <<dbVars, memVars, emitted, calls, hist>>

\* io.to(room).emit('user-muted', ...)
MutedEvent(r, target) == Event("user-muted", r, target, <<>>, RoomAll(r))

\* an INSERT whose record never takes effect
muteUserRowsInactive(r, target, d) ==
  Append(user_mutes, [chatroom_id |-> r, user_uid |-> target,
                      mute_until |-> now + d, created_at |-> now,
                      is_active |-> FALSE])

\* ChatroomService.muteUser: the tables after a permitted mute
muteUserRows(r, target, d) ==
  Append(user_mutes, [chatroom_id |-> r, user_uid |-> target,
                      mute_until |-> now + d, created_at |-> now,
                      is_active |-> TRUE])

muteUserAnon(r, target, d) ==
  IF target \in Anons /\ anonymous_users[target] # NoRow
     /\ anonymous_users[target].chatroom_id = r
  THEN [anonymous_users EXCEPT ![target].mute_until = now + d]
  ELSE anonymous_users

\* a muteUser without the check of the target
muteUserOutcomeAnyTarget(by, r, target) ==
  IF ~checkAdminPermission(by, r) THEN "Forbidden" ELSE "ok"

\* requireChatroomAdmin and ChatroomService.muteUser, the checks
muteUserOutcome(by, r, target) ==
  IF ~checkAdminPermission(by, r) THEN "Forbidden"
  ELSE IF chatrooms[r].creator_uid = target THEN "CreatorTarget"
  ELSE "ok"

\* POST /:roomId/mute by a registered user: requireChatroomAdmin, then
\* ChatroomService.muteUser, then user-muted to the room
MuteUser(by, r, target, d) ==
  /\ calls < MaxCalls
  /\ calls' = calls + 1
  /\ IF muteUserOutcome(by, r, target) # "ok"
     THEN /\ hist' = [Asked(by, "mute", target) EXCEPT
               !.resp = muteUserOutcome(by, r, target)]
          /\ UNCHANGED <<user_mutes, anonymous_users, emitted>>
     ELSE /\ user_mutes' = muteUserRows(r, target, d)
          /\ anonymous_users' = muteUserAnon(r, target, d)
          /\ emitted' = Append(emitted, MutedEvent(r, target))
          /\ hist' = [Asked(by, "mute", target) EXCEPT !.resp = "ok",
                                   !.mutedPairs = @ \cup {<<r, target>>},
                                   !.unmuteOk = @ \ {<<r, target>>},
                                   !.unmuteErr = @ \ {<<r, target>>}]
  /\ UNCHANGED <<now, chatrooms, chatroom_members, chatroom_admins, messages,
                 files, nextId, tx, memVars>>

\* ChatroomService.unmuteUser: UPDATE user_mutes SET is_active = 0
unmuteUserRows(r, target) ==
  [i \in 1..Len(user_mutes) |->
     IF user_mutes[i].chatroom_id = r /\ user_mutes[i].user_uid = target
     THEN [user_mutes[i] EXCEPT !.is_active = FALSE]
     ELSE user_mutes[i]]

\* unmuteUser: SELECT id FROM anonymous_users WHERE uid = ? AND chatroom_id = ?
HasAnonRow(r, target) ==
  /\ target \in Anons
  /\ anonymous_users[target] # NoRow
  /\ anonymous_users[target].chatroom_id = r

\* POST /:roomId/unmute by a registered user: requireChatroomAdmin, then
\* ChatroomService.unmuteUser.  For a target with an anonymous_users row
\* the last statement, UPDATE anonymous_users SET is_muted = 0, ..., names
\* a column the table does not have: it fails after the user_mutes rows
\* were written, and the route answers with the error
UnmuteUser(by, r, target) ==
  /\ calls < MaxCalls
  /\ calls' = calls + 1
  /\ IF ~checkAdminPermission(by, r)
     THEN /\ hist' = [Asked(by, "unmute", target) EXCEPT !.resp = "Forbidden"]
          /\ UNCHANGED <<user_mutes, emitted>>
     ELSE IF HasAnonRow(r, target)
     THEN /\ user_mutes' = unmuteUserRows(r, target)
          /\ hist' = [Asked(by, "unmute", target) EXCEPT !.resp = "Error",
                 !.unmuteErr = IF <<r, target>> \in hist.mutedPairs
                               THEN @ \cup {<<r, target>>} ELSE @,
                 !.unmuteOk = @ \ {<<r, target>>}]
          /\ UNCHANGED emitted
     ELSE /\ user_mutes' = unmuteUserRows(r, target)
          /\ emitted' = Append(emitted, MutedEvent(r, target))
          /\ hist' = [Asked(by, "unmute", target) EXCEPT !.resp = "ok",
                 !.unmuteOk = IF <<r, target>> \in hist.mutedPairs
                              THEN @ \cup {<<r, target>>} ELSE @,
                 !.unmuteErr = @ \ {<<r, target>>}]
  /\ UNCHANGED <<now, chatrooms, chatroom_members, chatroom_admins, anonymous_users,
                 messages, files, nextId, tx, memVars>>

\* ------------------------------------------------------------ admins and kicks

\* POST /:roomId/admin, its outcome: getChatroomInfo, the creator and self
\* checks of the route, then ChatroomService.setAdmin or removeAdmin
AdminOutcome(by, r, target, isAdmin) ==
  IF ~getChatroomInfoOk(r) THEN "RoomNotFound"
  ELSE IF chatrooms[r].creator_uid # by THEN "Forbidden"
  ELSE IF target = by THEN "Self"
  ELSE IF isAdmin /\ target \notin Users THEN "NoUser"
  ELSE IF isAdmin /\ <<r, target>> \in chatroom_admins THEN "AlreadyAdmin"
  ELSE IF ~isAdmin /\ <<r, target>> \notin chatroom_admins THEN "NotAdmin"
  ELSE "ok"

SetAdmin(by, r, target, isAdmin) ==
  /\ calls < MaxCalls
  /\ calls' = calls + 1
  /\ IF AdminOutcome(by, r, target, isAdmin) = "ok"
     THEN /\ chatroom_admins' = IF isAdmin THEN chatroom_admins \cup {<<r, target>>}
                                ELSE chatroom_admins \ {<<r, target>>}
          /\ hist' = [Asked(by, "admin", target) EXCEPT !.resp = "ok",
                 !.granted = IF isAdmin THEN @ \cup {<<r, target>>} ELSE @,
                 !.kicked = IF isAdmin THEN @ \ {<<r, target>>} ELSE @]
     ELSE /\ hist' = [Asked(by, "admin", target) EXCEPT !.resp = AdminOutcome(by, r, target, isAdmin)]
          /\ UNCHANGED chatroom_admins
  /\ UNCHANGED <<now, chatrooms, chatroom_members, user_mutes, anonymous_users,
                 messages, files, nextId, tx, memVars, emitted>>

\* MessageService.sendSystemMessage (persistent): INSERT INTO messages with
\* sender 'system'
systemRow(r) ==
  [id |-> nextId, chatroom_id |-> r, sender_uid |-> "system",
   sender_type |-> "system",
   reply_to_message_id |-> NoId, file_id |-> NULL,
   file_name |-> NULL, file_size |-> 0, file_expiry |-> NoTime,
   is_deleted |-> FALSE]

\* a setAdmin that also lets the admins of the room grant
setAdminOutcomeByAdmins(by, r, target) ==
  IF ~checkAdminPermission(by, r) THEN "Forbidden"
  ELSE IF target \notin Users THEN "NoUser"
  ELSE IF <<r, target>> \in chatroom_admins THEN "AlreadyAdmin"
  ELSE "ok"

\* ChatroomService.setAdmin, its outcome
setAdminOutcome(by, r, target) ==
  IF r \notin Rooms \/ chatrooms[r].creator_uid # by THEN "Forbidden"
  ELSE IF target \notin Users THEN "NoUser"
  ELSE IF <<r, target>> \in chatroom_admins THEN "AlreadyAdmin"
  ELSE "ok"

\* ChatroomService.removeAdmin, its outcome
removeAdminOutcome(by, r, target) ==
  IF r \notin Rooms \/ chatrooms[r].creator_uid # by THEN "Forbidden"
  ELSE IF <<r, target>> \notin chatroom_admins THEN "NotAdmin"
  ELSE "ok"

\* POST /:roomId/admins: ChatroomService.setAdmin, then a persistent system
\* message
GrantAdmin(by, r, target) ==
  /\ calls < MaxCalls
  /\ calls' = calls + 1
  /\ hist' = [Asked(by, "admin", target) EXCEPT
       !.resp = setAdminOutcome(by, r, target),
       !.granted = IF setAdminOutcome(by, r, target) = "ok"
                   THEN @ \cup {<<r, target>>} ELSE @,
       !.kicked = IF setAdminOutcome(by, r, target) = "ok"
                  THEN @ \ {<<r, target>>} ELSE @]
  /\ IF setAdminOutcome(by, r, target) = "ok"
     THEN /\ chatroom_admins' = chatroom_admins \cup {<<r, target>>}
          /\ messages' = messages \cup {systemRow(r)}
          /\ nextId' = nextId + 1
     ELSE UNCHANGED <<chatroom_admins, messages, nextId>>
  /\ UNCHANGED <<now, chatrooms, chatroom_members, user_mutes, anonymous_users,
                 files, tx, memVars, emitted>>

\* DELETE /:roomId/admins/:targetUid: ChatroomService.removeAdmin, then a
\* persistent system message
RevokeAdmin(by, r, target) ==
  /\ calls < MaxCalls
  /\ calls' = calls + 1
  /\ hist' = [Asked(by, "admin", target) EXCEPT !.resp = removeAdminOutcome(by, r, target)]
  /\ IF removeAdminOutcome(by, r, target) = "ok"
     THEN /\ chatroom_admins' = chatroom_admins \ {<<r, target>>}
          /\ messages' = messages \cup {systemRow(r)}
          /\ nextId' = nextId + 1
     ELSE UNCHANGED <<chatroom_admins, messages, nextId>>
  /\ UNCHANGED <<now, chatrooms, chatroom_members, user_mutes, anonymous_users,
                 files, tx, memVars, emitted>>

\* a kick without the check that the target is not the requester
KickOutcomeSelf(by, r, target) ==
  IF ~getChatroomInfoOk(r) THEN "RoomNotFound"
  ELSE IF chatrooms[r].creator_uid # by THEN "Forbidden"
  ELSE IF chatroom_members[<<r, target>>] = NoRow
          \/ ~chatroom_members[<<r, target>>].is_active THEN "NotMember"
  ELSE "ok"

\* POST /:roomId/kick, its outcome: the checks of the route and of kickUser
KickOutcome(by, r, target) ==
  IF ~getChatroomInfoOk(r) THEN "RoomNotFound"
  ELSE IF chatrooms[r].creator_uid # by THEN "Forbidden"
  ELSE IF target = by THEN "Self"
  ELSE IF chatroom_members[<<r, target>>] = NoRow
          \/ ~chatroom_members[<<r, target>>].is_active THEN "NotMember"
  ELSE "ok"

\* a kick that leaves the admin grant in place
kickUserKeepsAdmin(r, target) == chatroom_admins

\* kickUser: DELETE FROM chatroom_admins WHERE chatroom_id = ? AND user_uid = ?
kickUserAdmins(r, target) == chatroom_admins \ {<<r, target>>}

\* kickUser: DELETE FROM user_mutes WHERE user_uid = ? AND chatroom_id = ?
kickUserMutes(r, target) ==
  SelectSeq(user_mutes, LAMBDA x : ~(x.chatroom_id = r /\ x.user_uid = target))

\* ChatroomService.getOnlineUsers: the members with is_active = 1 and
\* status 'online', read after the kick was written
OnlineMembersAfterKick(r, target) ==
  {u \in Uids \ {target} : /\ chatroom_members[<<r, u>>] # NoRow
                           /\ chatroom_members[<<r, u>>].is_active
                           /\ chatroom_members[<<r, u>>].status = "online"}

\* POST /:roomId/kick: kickUser, then user-kicked and online-users go to the
\* room; the registry and the sockets are left as they are
KickUser(by, r, target) ==
  /\ calls < MaxCalls
  /\ calls' = calls + 1
  /\ IF KickOutcome(by, r, target) = "ok"
     THEN /\ chatroom_members' = [chatroom_members EXCEPT
                 ![<<r, target>>] = [status |-> "left", is_active |-> FALSE]]
          /\ chatroom_admins' = kickUserAdmins(r, target)
          /\ user_mutes' = kickUserMutes(r, target)
          /\ emitted' = emitted \o
               <<Event("user-kicked", r, target, <<>>, RoomAll(r)),
                 [type |-> "online-users", room |-> r, uid |-> target, list |-> <<>>,
                  to |-> RoomAll(r), users |-> OnlineMembersAfterKick(r, target)]>>
          /\ hist' = [Asked(by, "kick", target) EXCEPT !.resp = "ok",
                 !.kicked = IF <<r, target>> \in hist.granted
                            THEN @ \cup {<<r, target>>} ELSE @,
                 !.out = @ \cup {<<r, target>>},
                 !.rejoin = [c \in Conns |-> @[c] /\ socks[c].uid # target],
                 !.mutedPairs = @ \ {<<r, target>>}]
     ELSE /\ hist' = [Asked(by, "kick", target) EXCEPT !.resp = KickOutcome(by, r, target)]
          /\ UNCHANGED <<chatroom_members, chatroom_admins, user_mutes, emitted>>
  /\ UNCHANGED <<now, chatrooms, anonymous_users, messages, files, nextId, tx, memVars>>

\* ------------------------------------------------------------ message pipeline

\* a sendMessage whose text branch throws on no content
ValidTextAny(content) == TRUE

\* sendMessage, validation of a text message: content present, not blank
\* (the length limit is not reached by the payloads of Contents)
ValidText(content) == content # ""

\* an error that goes to the whole room: io.to(roomId).emit('error', ...)
ErrorEventToRoom(c, r, why) == Event("error", r, uidOf(c), <<why>>, RoomAll(r))

\* socket.emit('error', { message }): to the socket of the handler alone
ErrorEvent(c, r, why) == Event("error", r, uidOf(c), <<why>>, {c})

EndSend(c) == [hs EXCEPT ![c]["send"] = IdleFrame]

\* the awaited reads of sendMessage after its INSERT: the sender's row, the
\* one or two reads of checkAdminPermission, the replied sender's row
PostReads(uid, r, reply) ==
  1 + (IF chatrooms[r].creator_uid = uid THEN 1 ELSE 2)
    + (IF reply # NoId THEN 1 ELSE 0)

\* a sendMessage that ignores the userType it is handed (default 'user')
userTypeDefault(uid) == "user"

\* socket.user.type / req.user.type: the kind the credential resolves to
userType(uid) == IF uid \in Anons THEN "anonymous" ELSE "user"

\* the file columns of a message that carries no file
NoFile == [id |-> NULL, name |-> NULL, size |-> 0, expiry |-> NoTime]

\* INSERT INTO messages: the row (id from AUTOINCREMENT); file holds the
\* fileId, fileName, fileSize and fileExpiry handed to sendMessage
messageRow(r, uid, reply, file) ==
  [id |-> nextId, chatroom_id |-> r, sender_uid |-> uid,
   sender_type |-> userType(uid),
   reply_to_message_id |-> reply, file_id |-> file.id,
   file_name |-> file.name, file_size |-> file.size,
   file_expiry |-> file.expiry, is_deleted |-> FALSE]

MessageIds == {m.id : m \in messages}

\* PRAGMA foreign_keys = ON: reply_to_message_id REFERENCES messages(id)
ReplyKeyOk(reply) == reply = NoId \/ reply \in MessageIds

\* a lookup of the replied message by id alone
replyTargetAnyRoom(reply, r) == \E m \in messages : m.id = reply

\* sendMessage: SELECT * FROM messages WHERE id = ? AND chatroom_id = ?
\* finds a row
replyTarget(reply, r) == \E m \in messages : m.id = reply /\ m.chatroom_id = r

\* socket.on('send-message'): the event arrives; rejected at once unless
\* the socket's currentRoom is the room, else updateMemberActivity is
\* awaited.  (One send of a socket is in flight at a time.)
SendMessage(c, r, content, reply) ==
  /\ socks[c].state = "open"
  /\ hs[c]["send"].pc = "idle"
  /\ calls < MaxCalls
  /\ calls' = calls + 1
  /\ hist' = [NoteCall(c) EXCEPT
       !.muted[c] = checkUserMuted(uidOf(c), r),
       !.mutes[c] = Len(user_mutes)]
  /\ IF socks[c].currentRoom = NULL \/ socks[c].currentRoom # r
     THEN /\ emitted' = Append(emitted, ErrorEvent(c, r, "NotInRoom"))
          /\ UNCHANGED hs
     ELSE /\ hs' = [hs EXCEPT ![c]["send"] =
                 [pc |-> "activity", room |-> r, content |-> content,
                  reply |-> reply, id |-> NoId, left |-> 0]]
          /\ UNCHANGED emitted
  /\ UNCHANGED <<now, dbVars, onlineUsers, userSockets, socks>>

\* ChatroomService.updateMemberActivity: UPDATE ... SET status = 'online'
updateMemberActivity(r, uid) ==
  IF chatroom_members[<<r, uid>>] = NoRow THEN chatroom_members
  ELSE [chatroom_members EXCEPT ![<<r, uid>>].status = "online"]

\* send-message: updateMemberActivity ran; sendMessage validates the
\* payload and awaits the first read of checkUserMuted
SendActivity(c) ==
  LET f == hs[c]["send"] IN
  /\ f.pc = "activity"
  /\ chatroom_members' = updateMemberActivity(f.room, uidOf(c))
  /\ IF ValidText(f.content)
     THEN /\ hs' = [hs EXCEPT ![c]["send"].pc = "mute"]
          /\ UNCHANGED emitted
     ELSE /\ hs' = EndSend(c)
          /\ emitted' = Append(emitted, ErrorEvent(c, f.room, "Invalid"))
  /\ UNCHANGED <<now, chatrooms, chatroom_admins, user_mutes, anonymous_users,
                 messages, files, nextId, tx, onlineUsers, userSockets, socks,
                 calls, hist>>

\* send-message, checkUserMuted: the user_mutes record was read
SendMuteRecord(c) ==
  LET f == hs[c]["send"] IN
  /\ f.pc = "mute"
  /\ IF isUserMuted(LatestMute(uidOf(c), f.room))
     THEN /\ hs' = EndSend(c)
          /\ emitted' = Append(emitted, ErrorEvent(c, f.room, "Muted"))
     ELSE /\ hs' = [hs EXCEPT ![c]["send"].pc = "muteAnon"]
          /\ UNCHANGED emitted
  /\ UNCHANGED <<now, dbVars, onlineUsers, userSockets, socks, calls, hist>>

\* send-message, checkUserMuted: the anonymous_users row was read; next the
\* replied message is looked up, or the row is inserted
SendMuteAnon(c) ==
  LET f == hs[c]["send"] IN
  /\ f.pc = "muteAnon"
  /\ IF isUserMuted(AnonMuteUntil(uidOf(c), f.room))
     THEN /\ hs' = EndSend(c)
          /\ emitted' = Append(emitted, ErrorEvent(c, f.room, "Muted"))
     ELSE /\ hs' = [hs EXCEPT ![c]["send"].pc =
                      IF f.reply # NoId THEN "reply" ELSE "insert"]
          /\ UNCHANGED emitted
  /\ UNCHANGED <<now, dbVars, onlineUsers, userSockets, socks, calls, hist>>

\* send-message: SELECT * FROM messages WHERE id = ? AND chatroom_id = ?
SendReply(c) ==
  LET f == hs[c]["send"] IN
  /\ f.pc = "reply"
  /\ IF replyTarget(f.reply, f.room)
     THEN /\ hs' = [hs EXCEPT ![c]["send"].pc = "insert"]
          /\ UNCHANGED emitted
     ELSE /\ hs' = EndSend(c)
          /\ emitted' = Append(emitted, ErrorEvent(c, f.room, "NoReplyTarget"))
  /\ UNCHANGED <<now, dbVars, onlineUsers, userSockets, socks, calls, hist>>

\* send-message: the INSERT ran; the reads that enrich the message follow
SendInsert(c) ==
  LET f == hs[c]["send"] IN
  /\ f.pc = "insert"
  /\ IF ReplyKeyOk(f.reply)
     THEN /\ messages' = messages \cup {messageRow(f.room, uidOf(c), f.reply, NoFile)}
          /\ nextId' = nextId + 1
          /\ hs' = [hs EXCEPT ![c]["send"].pc = "post",
                              ![c]["send"].id = nextId,
                              ![c]["send"].left = PostReads(uidOf(c), f.room, f.reply)]
          /\ UNCHANGED emitted
     ELSE /\ hs' = EndSend(c)
          /\ emitted' = Append(emitted, ErrorEvent(c, f.room, "Constraint"))
          /\ UNCHANGED <<messages, nextId>>
  /\ UNCHANGED <<now, chatrooms, chatroom_members, chatroom_admins, user_mutes,
                 anonymous_users, files, tx, onlineUsers, userSockets, socks,
                 calls, hist>>

\* sendMessage after its INSERT: the row that holds the display data of uid
\* is found (users WHERE uid = ?; anonymous_users WHERE uid = ? AND
\* chatroom_id = ?); building the result reads userInfo.uid and throws when
\* it is not
senderInfo(uid, r) ==
  uid \notin Anons
    \/ (anonymous_users[uid] # NoRow /\ anonymous_users[uid].chatroom_id = r)

\* the same for the sender of the replied message, while that row exists
repliedInfo(reply, r) ==
  \A m \in messages : m.id = reply => senderInfo(m.sender_uid, r)

\* send-message: one read after the INSERT returned.  The result is built
\* after the reads of checkAdminPermission and completed after the read of
\* the replied sender; either throws when the row it needs was not found,
\* and the catch block answers the sender.  After the last read
\* io.to(roomId).emit('new-message', message)
SendPost(c) ==
  LET f == hs[c]["send"]
      replyReads == IF f.reply # NoId THEN 1 ELSE 0
  IN
  /\ f.pc = "post"
  /\ IF f.left - 1 = replyReads /\ ~senderInfo(uidOf(c), f.room)
     THEN /\ hs' = EndSend(c)
          /\ emitted' = Append(emitted, ErrorEvent(c, f.room, "Error"))
     ELSE IF f.left > 1
     THEN /\ hs' = [hs EXCEPT ![c]["send"].left = f.left - 1]
          /\ UNCHANGED emitted
     ELSE IF f.reply # NoId /\ ~repliedInfo(f.reply, f.room)
     THEN /\ hs' = EndSend(c)
          /\ emitted' = Append(emitted, ErrorEvent(c, f.room, "Error"))
     ELSE /\ hs' = EndSend(c)
          /\ emitted' = Append(emitted,
               Event("new-message", f.room, uidOf(c), <<f.id>>, RoomAll(f.room)))
  /\ UNCHANGED <<now, dbVars, onlineUsers, userSockets, socks, calls, hist>>

\* POST /:roomId/messages with the token of principal p: authenticateToken,
\* checkMuteStatus, validateRequest, MessageService.sendMessage; the answer
\* goes to the caller only
HttpSendOutcome(p, r, content, reply) ==
  IF p \in Anons /\ (anonymous_users[p] = NoRow \/ ~anonymous_users[p].is_active)
  THEN "Forbidden"
  ELSE IF p \in Anons /\ isUserMuted(anonymous_users[p].mute_until) THEN "Muted"
  ELSE IF ~ValidText(content) THEN "Invalid"
  ELSE IF checkUserMuted(p, r) THEN "Muted"
  ELSE IF reply # NoId /\ ~replyTarget(reply, r)
  THEN "NoReplyTarget"
  ELSE "ok"

HttpSend(p, r, content, reply) ==
  /\ calls < MaxCalls
  /\ calls' = calls + 1
  /\ hist' = [hist EXCEPT !.resp =
       IF /\ HttpSendOutcome(p, r, content, reply) = "ok"
          /\ (~senderInfo(p, r) \/ (reply # NoId /\ ~repliedInfo(reply, r)))
       THEN "Error"
       ELSE HttpSendOutcome(p, r, content, reply)]
  /\ IF HttpSendOutcome(p, r, content, reply) = "ok"
     THEN /\ messages' = messages \cup {messageRow(r, p, reply, NoFile)}
          /\ nextId' = nextId + 1
     ELSE UNCHANGED <<messages, nextId>>
  /\ UNCHANGED <<now, chatrooms, chatroom_members, chatroom_admins, user_mutes,
                 anonymous_users, files, tx, memVars, emitted>>

\* ------------------------------------------------------------ deleting a message

\* the tables as one value: what BEGIN TRANSACTION remembers and ROLLBACK
\* restores (the unlinked files stay unlinked)
StoreRows ==
  [chatrooms |-> chatrooms, chatroom_members |-> chatroom_members,
   chatroom_admins |-> chatroom_admins, user_mutes |-> user_mutes,
   anonymous_users |-> anonymous_users, messages |-> messages,
   files |-> files, nextId |-> nextId]

messageById(id) == CHOOSE m \in messages : m.id = id

EndDel(c) == [hs EXCEPT ![c]["del"] = IdleFrame]

\* DELETE /:roomId/messages/:messageId by the principal of c: the request
\* arrives and deleteMessage awaits the read of the message.  io says
\* whether the store will fail the UPDATE of the files row
DeleteMessage(c, r, id, io) ==
  /\ socks[c].state = "open"
  /\ uidOf(c) \in Users
  /\ hs[c]["del"].pc = "idle"
  /\ calls < MaxCalls
  /\ calls' = calls + 1
  /\ hs' = [hs EXCEPT ![c]["del"] =
              [pc |-> "read", room |-> r, id |-> id, file_id |-> NULL,
               sender_uid |-> NULL, io |-> io, why |-> NULL]]
  /\ hist' = [hist EXCEPT !.atCall[c] = [messages |-> messages, files |-> files]]
  /\ UNCHANGED <<now, dbVars, onlineUsers, userSockets, socks, emitted>>

\* deleteMessage: SELECT * FROM messages WHERE id = ? AND chatroom_id = ?
DelRead(c) ==
  LET f == hs[c]["del"] IN
  /\ f.pc = "read"
  /\ IF \E m \in messages : m.id = f.id /\ m.chatroom_id = f.room
     THEN /\ hs' = [hs EXCEPT ![c]["del"].pc = "perm",
                              ![c]["del"].file_id = messageById(f.id).file_id,
                              ![c]["del"].sender_uid = messageById(f.id).sender_uid]
          /\ UNCHANGED hist
     ELSE /\ hs' = EndDel(c)
          /\ hist' = [hist EXCEPT !.resp = "NoMessage"]
  /\ UNCHANGED <<now, dbVars, onlineUsers, userSockets, socks, emitted, calls>>

\* a permission check that lets every authenticated requester through
mayDeleteAnyone(uid, r, sender) == TRUE

\* deleteMessage: isAdmin || isOwner
mayDelete(uid, r, sender) == checkAdminPermission(uid, r) \/ sender = uid

\* deleteMessage: checkAdminPermission returned; the owner or an admin goes on
DelPerm(c) ==
  LET f == hs[c]["del"] IN
  /\ f.pc = "perm"
  /\ IF mayDelete(uidOf(c), f.room, f.sender_uid)
     THEN /\ hs' = [hs EXCEPT ![c]["del"].pc = "begin"]
          /\ UNCHANGED hist
     ELSE /\ hs' = EndDel(c)
          /\ hist' = [hist EXCEPT !.resp = "Forbidden"]
  /\ UNCHANGED <<now, dbVars, onlineUsers, userSockets, socks, emitted, calls>>

\* deleteMessage: BEGIN TRANSACTION on the shared connection; it fails when
\* a transaction is open, and the catch block takes over
DelBegin(c) ==
  LET f == hs[c]["del"] IN
  /\ f.pc = "begin"
  /\ IF tx.active
     THEN /\ hs' = [hs EXCEPT ![c]["del"].pc = "rollback", ![c]["del"].why = "begin"]
          /\ UNCHANGED tx
     ELSE /\ hs' = [hs EXCEPT ![c]["del"].pc = "clear"]
          /\ tx' = [active |-> TRUE, rows |-> StoreRows]
  /\ UNCHANGED <<now, chatrooms, chatroom_members, chatroom_admins, user_mutes,
                 anonymous_users, messages, files, nextId, onlineUsers, userSockets,
                 socks, emitted, calls, hist>>

\* UPDATE messages SET reply_to_message_id = NULL WHERE reply_to_message_id = ?
clearReplies(id) ==
  {IF m.reply_to_message_id = id THEN [m EXCEPT !.reply_to_message_id = NoId] ELSE m :
     m \in messages}

\* deleteMessage: the replies were detached; a file message goes on to its
\* file record
DelClear(c) ==
  LET f == hs[c]["del"] IN
  /\ f.pc = "clear"
  /\ messages' = clearReplies(f.id)
  /\ hs' = [hs EXCEPT ![c]["del"].pc = IF f.file_id # NULL THEN "fileget" ELSE "delete"]
  /\ UNCHANGED <<now, chatrooms, chatroom_members, chatroom_admins, user_mutes,
                 anonymous_users, files, nextId, tx, onlineUsers, userSockets,
                 socks, emitted, calls, hist>>

\* deleteMessage: SELECT stored_name FROM files WHERE file_id = ?
DelFileGet(c) ==
  LET f == hs[c]["del"] IN
  /\ f.pc = "fileget"
  /\ hs' = [hs EXCEPT ![c]["del"].pc = "fileupd"]
  /\ UNCHANGED <<now, dbVars, onlineUsers, userSockets, socks, emitted, calls, hist>>

\* deleteMessage: UPDATE files SET is_expired = 1, message_id = NULL, then
\* the stored file is unlinked; a failed UPDATE goes to the catch block
DelFileUpd(c) ==
  LET f == hs[c]["del"] IN
  /\ f.pc = "fileupd"
  /\ IF f.io = "fail"
     THEN /\ hs' = [hs EXCEPT ![c]["del"].pc = "rollback", ![c]["del"].why = "file"]
          /\ UNCHANGED files
     ELSE /\ hs' = [hs EXCEPT ![c]["del"].pc = "delete"]
          /\ files' = IF f.file_id \in DOMAIN files
                      THEN [files EXCEPT ![f.file_id].is_expired = TRUE,
                                         ![f.file_id].message_id = NoId,
                                         ![f.file_id].on_disk = FALSE]
                      ELSE files
  /\ UNCHANGED <<now, chatrooms, chatroom_members, chatroom_admins, user_mutes,
                 anonymous_users, messages, nextId, tx, onlineUsers, userSockets,
                 socks, emitted, calls, hist>>

\* PRAGMA foreign_keys = ON: no row may go on referring to a deleted message
\* (messages.reply_to_message_id, files.message_id)
DeleteKeyOk(id) ==
  /\ \A m \in messages : m.reply_to_message_id # id
  /\ \A x \in DOMAIN files : files[x].message_id # id

\* deleteMessage: DELETE FROM messages WHERE id = ?
DelDelete(c) ==
  LET f == hs[c]["del"] IN
  /\ f.pc = "delete"
  /\ IF DeleteKeyOk(f.id)
     THEN /\ messages' = {m \in messages : m.id # f.id}
          /\ hs' = [hs EXCEPT ![c]["del"].pc = "commit"]
          /\ hist' = [hist EXCEPT !.deleted = @ \cup (MessageIds \cap {f.id})]
     ELSE /\ hs' = [hs EXCEPT ![c]["del"].pc = "rollback", ![c]["del"].why = "delete"]
          /\ UNCHANGED <<messages, hist>>
  /\ UNCHANGED <<now, chatrooms, chatroom_members, chatroom_admins, user_mutes,
                 anonymous_users, files, nextId, tx, onlineUsers, userSockets,
                 socks, emitted, calls>>

\* deleteMessage: COMMIT; it fails when no transaction is open.  After a
\* commit the route sends message-deleted to the room
DelCommit(c) ==
  LET f == hs[c]["del"] IN
  /\ f.pc = "commit"
  /\ IF tx.active
     THEN /\ tx' = [active |-> FALSE]
          /\ hs' = EndDel(c)
          /\ emitted' = Append(emitted,
               Event("message-deleted", f.room, uidOf(c), <<f.id>>, RoomAll(f.room)))
          /\ hist' = [hist EXCEPT !.resp = "ok"]
     ELSE /\ hs' = [hs EXCEPT ![c]["del"].pc = "rollback", ![c]["del"].why = "commit"]
          /\ UNCHANGED <<tx, emitted, hist>>
  /\ UNCHANGED <<now, chatrooms, chatroom_members, chatroom_admins, user_mutes,
                 anonymous_users, messages, files, nextId, onlineUsers, userSockets,
                 socks, calls>>

\* the files table after ROLLBACK: the rows of the snapshot; what was
\* unlinked stays unlinked
rolledBackFiles(rows) ==
  [x \in DOMAIN rows.files |->
     IF x \in DOMAIN files /\ rows.files[x] # NoRow /\ files[x] # NoRow
     THEN [rows.files[x] EXCEPT !.on_disk = files[x].on_disk]
     ELSE rows.files[x]]

\* deleteMessage, catch block: ROLLBACK ends whichever transaction is open
\* on the connection and restores the tables to its BEGIN; with none open
\* it fails.  Either way the caller gets the error
DelRollback(c) ==
  LET f == hs[c]["del"] IN
  /\ f.pc = "rollback"
  /\ hs' = EndDel(c)
  /\ IF tx.active
     THEN /\ tx' = [active |-> FALSE]
          /\ chatrooms' = tx.rows.chatrooms
          /\ chatroom_members' = tx.rows.chatroom_members
          /\ chatroom_admins' = tx.rows.chatroom_admins
          /\ user_mutes' = tx.rows.user_mutes
          /\ anonymous_users' = tx.rows.anonymous_users
          /\ messages' = tx.rows.messages
          /\ files' = rolledBackFiles(tx.rows)
          /\ nextId' = tx.rows.nextId
          /\ hist' = [hist EXCEPT !.resp = "Error",
                 !.deleted = @ \ {m.id : m \in tx.rows.messages}]
     ELSE /\ UNCHANGED dbVars
          /\ hist' = [hist EXCEPT !.resp = "Error"]
  /\ UNCHANGED <<now, onlineUsers, userSockets, socks, emitted, calls>>

\* ------------------------------------------------------------ initial state

\* the store after the two rooms were created by u1: R1 open, R2 protected
Chatrooms0 ==
  [r \in Rooms |-> [creator_uid |-> "u1",
                    password_hash |-> IF r = "R2" THEN "good" ELSE NULL,
                    is_active |-> TRUE]]

Hist0 ==
  [raced |-> [c \in Conns |-> FALSE],
   last |-> [c \in Conns |-> <<"none", NULL>>],
   pwOk |-> {},
   muted |-> [c \in Conns |-> FALSE],
   mutes |-> [c \in Conns |-> 0],
   mutedPairs |-> {}, unmuteOk |-> {}, unmuteErr |-> {},
   granted |-> {}, kicked |-> {}, out |-> {}, rejoined |-> {},
   expired |-> {}, refused |-> {}, resolves |-> 0, swept |-> {},
   rejoin |-> [c \in Conns |-> FALSE], by |-> NULL, op |-> NULL, target |-> NULL,
   atCall |-> [c \in Conns |-> [messages |-> {}, files |-> <<>>]],
   deleted |-> {},
   resp |-> NULL]

InitStore ==
  /\ now = 0
  /\ chatrooms = Chatrooms0
  /\ chatroom_members = [x \in Rooms \X Uids |-> NoRow]
  /\ chatroom_admins = {}
  /\ user_mutes = <<>>
  /\ anonymous_users = [a \in Anons |-> NoRow]
  /\ messages = {}
  /\ files = [f \in {} |-> NoRow]
  /\ nextId = 1
  /\ tx = [active |-> FALSE]

\* the server after construction: empty maps, no socket
InitMem ==
  /\ onlineUsers = [r \in Rooms |-> <<>>]
  /\ userSockets = [u \in Uids |-> NULL]
  /\ socks = [c \in Conns |-> [state |-> "new", uid |-> NULL,
                               currentRoom |-> NULL, rooms |-> {}]]
  /\ hs = [c \in Conns |-> [k \in Kinds |-> IdleFrame]]
  /\ emitted = <<>>
  /\ calls = 0
  /\ hist = Hist0

Init == InitStore /\ InitMem

\* ------------------------------------------------------------ presence

\* each principal on a socket of its own
Holder == [c \in Conns |-> CASE c = "c1" -> "u1" [] c = "c2" -> "u2" [] OTHER -> "u3"]

PresenceConns == {"c1", "c2"}

NextPresence ==
  \/ \E c \in PresenceConns : Connect(c, Holder[c])
  \/ \E c \in PresenceConns, r \in Rooms : JoinRoom(c, r)
  \/ \E c \in PresenceConns : JoinInfo(c)
  \/ \E c \in PresenceConns : JoinMember(c)
  \/ \E c \in PresenceConns : JoinList(c)
  \/ \E c \in PresenceConns : LeaveRoom(c)
  \/ \E c \in PresenceConns : Disconnect(c)
  \/ \E c \in PresenceConns, k \in {"leave", "disc"} : LeaveOffline(c, k)
  \/ \E c \in PresenceConns, k \in {"leave", "disc"} : LeaveList(c, k)
  \/ \E p \in {"u2"}, r \in Rooms, pw \in Passwords \cup {NULL} : HttpJoin(p, r, pw)

SpecPresence == Init /\ [][NextPresence]_vars

\* ------------------------------------------------------------ C1

\* C1: for every room R and principal P holding a single connection, used
\* one request at a time: once P's join-room(R) has completed, listOnline(R)
\* contains P exactly once; once P's leave (leave-room or disconnect) has
\* completed, no room's listOnline contains P; and a leave that follows a
\* completed leave changes neither the registry nor the memberships and
\* emits nothing.
C1State ==
  \A c \in Conns :
    (socks[c].state # "new" /\ ~InFlight(c) /\ ~hist.raced[c]) =>
      /\ (hist.last[c][1] = "join" /\ socks[c].state = "open") =>
           Occurrences(ListOnline(hist.last[c][2]), uidOf(c)) = 1
      /\ hist.last[c][1] = "leave" =>
           \A r \in Rooms : Occurrences(ListOnline(r), uidOf(c)) = 0

C1SecondLeave ==
  \A c \in Conns :
    ((LeaveRoom(c) \/ Disconnect(c)) /\ ~InFlight(c) /\ hist.last[c][1] = "leave") =>
      UNCHANGED <<onlineUsers, chatroom_members, emitted>>

C1LeaveEmptiesPresence == []C1State /\ [][C1SecondLeave]_vars

\* ------------------------------------------------------------ C9

\* C9: a principal who is not the creator of a password-protected room is
\* registered in it (presence registry entry or online membership) only
\* after it supplied the matching password.
C9PasswordGatesJoin ==
  \A u \in Uids, r \in Rooms :
    ( /\ chatrooms[r].password_hash # NULL
      /\ chatrooms[r].creator_uid # u
      /\ \/ Contains(onlineUsers[r], u)
         \/ ( chatroom_members[<<r, u>>] # NoRow
              /\ chatroom_members[<<r, u>>].status = "online") )
    => <<u, r>> \in hist.pwOk

\* ------------------------------------------------------------ C2

\* concurrent joins only: three principals, each on its own socket
NextJoin ==
  \/ \E c \in Conns : Connect(c, Holder[c])
  \/ \E c \in Conns, r \in Rooms : JoinRoom(c, r)
  \/ \E c \in Conns : JoinInfo(c)
  \/ \E c \in Conns : JoinMember(c)
  \/ \E c \in Conns : JoinList(c)

SpecJoin == Init /\ [][NextJoin]_vars

\* the principals whose join-room of r has completed (room-joined was sent)
JoinedDone(r) ==
  {emitted[i].uid : i \in {j \in 1..Len(emitted) :
      emitted[j].type = "room-joined" /\ emitted[j].room = r}}

\* C2: when distinct principals join the same room concurrently, then under
\* every interleaving of the steps of their join handlers, once the
\* handlers have finished the room's online list holds exactly the
\* principals that joined, each once.
C2ConcurrentJoins ==
  (\A c \in Conns : ~InFlight(c)) =>
    \A r \in Rooms :
      /\ SeqToSet(ListOnline(r)) = JoinedDone(r)
      /\ \A u \in Uids : Occurrences(ListOnline(r), u) <= 1

\* two joins of R1 overlapped (the first room-joined already lists both
\* principals) and both have finished
C2Witness ==
  /\ \A c \in Conns : ~InFlight(c)
  /\ Len(ListOnline("R1")) = 2
  /\ Len(emitted) = 4
  /\ emitted[2].type = "room-joined" /\ emitted[2].room = "R1"
  /\ Len(emitted[2].list) = 2
  /\ emitted[4].room = "R1"

\* ------------------------------------------------------------ sending

\* the room R1 in use: u1 (its creator), u2 and the anonymous a1 have
\* joined it over their sockets; u3 holds a token and joined nothing
SendHolder == [c \in Conns |-> CASE c = "c1" -> "u1" [] c = "c2" -> "u2" [] OTHER -> "a1"]

InitSend ==
  /\ now = 0
  /\ chatrooms = Chatrooms0
  /\ chatroom_members = [x \in Rooms \X Uids |->
       IF x[1] = "R1" /\ x[2] # "u3"
       THEN [status |-> "online", is_active |-> TRUE] ELSE NoRow]
  /\ chatroom_admins = {}
  /\ user_mutes = <<>>
  /\ anonymous_users = [a \in Anons |->
       [chatroom_id |-> "R1", mute_until |-> muteDuration, is_active |-> TRUE,
        join_time |-> 0]]
  /\ messages = {}
  /\ files = [f \in {} |-> NoRow]
  /\ nextId = 1
  /\ tx = [active |-> FALSE]
  /\ onlineUsers = [r \in Rooms |-> IF r = "R1" THEN <<"u1", "u2", "a1">> ELSE <<>>]
  /\ userSockets = [u \in Uids |->
       CASE u = "u1" -> "c1" [] u = "u2" -> "c2" [] u = "a1" -> "c3" [] OTHER -> NULL]
  /\ socks = [c \in Conns |-> [state |-> "open", uid |-> SendHolder[c],
                               currentRoom |-> "R1", rooms |-> {"R1"}]]
  /\ hs = [c \in Conns |-> [k \in Kinds |-> IdleFrame]]
  /\ emitted = <<>>
  /\ calls = 0
  /\ hist = Hist0

\* senders over sockets and over HTTP; nobody is muted by a moderator
NextSend ==
  \/ \E c \in {"c1", "c2"}, r \in Rooms, content \in Contents, reply \in {NoId, 1} :
       SendMessage(c, r, content, reply)
  \/ \E c \in Conns : SendActivity(c)
  \/ \E c \in Conns : SendMuteRecord(c)
  \/ \E c \in Conns : SendMuteAnon(c)
  \/ \E c \in Conns : SendReply(c)
  \/ \E c \in Conns : SendInsert(c)
  \/ \E c \in Conns : SendPost(c)
  \/ \E p \in {"u3"}, content \in Contents : HttpSend(p, "R1", content, NoId)

SpecSend == InitSend /\ [][NextSend]_vars

\* senders under moderation: the creator mutes u2, the anonymous a1 starts
\* under the mute of its creation, time passes
NextMute ==
  \/ Tick
  \/ \E d \in Durations : MuteUser("u1", "R1", "u2", d)
  \/ \E c \in {"c2", "c3"}, content \in Contents :
       SendMessage(c, "R1", content, NoId)
  \/ \E c \in Conns : SendActivity(c)
  \/ \E c \in Conns : SendMuteRecord(c)
  \/ \E c \in Conns : SendMuteAnon(c)
  \/ \E c \in Conns : SendInsert(c)
  \/ \E c \in Conns : SendPost(c)

SpecMute == InitSend /\ [][NextMute]_vars

\* ------------------------------------------------------------ C3

\* C3: within one room, new-message broadcasts are emitted in the order in
\* which the rows were persisted (ids are handed out in insertion order).
C3BroadcastOrder ==
  \A i, j \in 1..Len(emitted) :
    ( /\ i < j
      /\ emitted[i].type = "new-message" /\ emitted[j].type = "new-message"
      /\ emitted[i].room = emitted[j].room )
    => emitted[i].list[1] < emitted[j].list[1]

\* ------------------------------------------------------------ C10

\* C10: no message row is persisted for a sender who is not joined to the
\* room, whichever entry point the send came through (nobody leaves a room
\* in this specification, so a joined sender has an online membership).
C10NotJoinedNoRow ==
  \A m \in messages :
    /\ chatroom_members[<<m.chatroom_id, m.sender_uid>>] # NoRow
    /\ chatroom_members[<<m.chatroom_id, m.sender_uid>>].status = "online"

\* ------------------------------------------------------------ C4

\* the most recently created active mute record of uid in r is in force
C4Current(uid, r) ==
  \E i \in 1..Len(user_mutes) :
    /\ user_mutes[i].chatroom_id = r /\ user_mutes[i].user_uid = uid
    /\ user_mutes[i].is_active
    /\ \A j \in (i+1)..Len(user_mutes) :
         ~(user_mutes[j].chatroom_id = r /\ user_mutes[j].user_uid = uid
           /\ user_mutes[j].is_active)
    /\ now < user_mutes[i].mute_until

\* the mute carried by the anonymous principal's own row is in force
C4Anon(uid, r) ==
  /\ uid \in Anons
  /\ anonymous_users[uid] # NoRow
  /\ anonymous_users[uid].chatroom_id = r
  /\ anonymous_users[uid].is_active
  /\ anonymous_users[uid].mute_until # NoTime
  /\ now < anonymous_users[uid].mute_until

NextMod ==
  \/ Tick
  \/ \E by \in {"u1", "u2"}, t \in {"u1", "u2", "a1"}, d \in Durations :
       MuteUser(by, "R1", t, d)
  \/ \E by \in {"u1", "u2"}, t \in {"u2", "a1"} : UnmuteUser(by, "R1", t)
  \/ \E by \in {"u1", "u2"}, t \in {"u2", "a1"}, isAdmin \in BOOLEAN :
       SetAdmin(by, "R1", t, isAdmin)
  \/ \E by \in {"u1", "u2"}, t \in {"u2", "u3"} : GrantAdmin(by, "R1", t)
  \/ \E by \in {"u1", "u2"}, t \in {"u2", "u3"} : RevokeAdmin(by, "R1", t)
  \/ \E by \in {"u1", "u2"}, t \in {"u1", "u2", "a1"} : KickUser(by, "R1", t)

SpecMod == InitSend /\ [][NextMod]_vars

\* ------------------------------------------------------------ C5

\* C5: for every non-creator target U of room R, registered or anonymous:
\* once a mute of U by an admin was followed by an unmute by an admin, the
\* unmute reported success and checkMuted(R, U) is false.
C5UnmuteClears ==
  \A r \in Rooms, u \in Uids :
    (chatrooms[r].creator_uid # u /\ <<r, u>> \in hist.unmuteOk \cup hist.unmuteErr)
    => (<<r, u>> \in hist.unmuteOk /\ ~checkUserMuted(u, r))

\* ------------------------------------------------------------ C8

\* C8: once a registered member U of room R was made admin by the creator
\* and then kicked by the creator, checkAdmin(U, R) is false in every later
\* state until a new setAdmin(R, U).
C8KickRevokesAdmin ==
  \A r \in Rooms, u \in Users :
    <<r, u>> \in hist.kicked => ~checkAdminPermission(u, r)

\* u2 was made admin of R1 by the creator and then kicked by the creator
C8Witness ==
  /\ <<"R1", "u2">> \in hist.kicked
  /\ \E i \in 1..Len(emitted) : emitted[i].type = "user-kicked" /\ emitted[i].uid = "u2"
  /\ ~checkAdminPermission("u2", "R1")

\* ------------------------------------------------------------ deletion

\* R1 in use as in InitSend, holding the file message 1 of u2 (file f1)
\* and the reply 2 of u1 to it
InitDelete ==
  /\ now = 0
  /\ chatrooms = Chatrooms0
  /\ chatroom_members = [x \in Rooms \X Uids |->
       IF x[1] = "R1" /\ x[2] # "u3"
       THEN [status |-> "online", is_active |-> TRUE] ELSE NoRow]
  /\ chatroom_admins = {}
  /\ user_mutes = <<>>
  /\ anonymous_users = [a \in Anons |->
       [chatroom_id |-> "R1", mute_until |-> muteDuration, is_active |-> TRUE,
        join_time |-> 0]]
  /\ messages =
       {[id |-> 1, chatroom_id |-> "R1", sender_uid |-> "u2",
         sender_type |-> "user",
         reply_to_message_id |-> NoId, file_id |-> "f1",
         file_name |-> "n1", file_size |-> 1, file_expiry |-> MaxTime,
         is_deleted |-> FALSE],
        [id |-> 2, chatroom_id |-> "R1", sender_uid |-> "u1",
         sender_type |-> "user",
         reply_to_message_id |-> 1, file_id |-> NULL,
         file_name |-> NULL, file_size |-> 0, file_expiry |-> NoTime,
         is_deleted |-> FALSE]}
  /\ files = [x \in FileIds |->
       [message_id |-> 1, is_expired |-> FALSE, on_disk |-> TRUE,
        uploader_uid |-> "u2", chatroom_id |-> "R1",
        original_name |-> "n1", file_size |-> 1, expiry_time |-> MaxTime]]
  /\ nextId = 3
  /\ tx = [active |-> FALSE]
  /\ onlineUsers = [r \in Rooms |-> IF r = "R1" THEN <<"u1", "u2", "a1">> ELSE <<>>]
  /\ userSockets = [u \in Uids |->
       CASE u = "u1" -> "c1" [] u = "u2" -> "c2" [] u = "a1" -> "c3" [] OTHER -> NULL]
  /\ socks = [c \in Conns |-> [state |-> "open", uid |-> SendHolder[c],
                               currentRoom |-> "R1", rooms |-> {"R1"}]]
  /\ hs = [c \in Conns |-> [k \in Kinds |-> IdleFrame]]
  /\ emitted = <<>>
  /\ calls = 0
  /\ hist = Hist0

\* u1 and u2 delete messages while u2 posts over HTTP
NextDelete ==
  \/ \E c \in {"c1", "c2"}, id \in {1, 2}, io \in {"ok", "fail"} :
       DeleteMessage(c, "R1", id, io)
  \/ \E c \in Conns : DelRead(c)
  \/ \E c \in Conns : DelPerm(c)
  \/ \E c \in Conns : DelBegin(c)
  \/ \E c \in Conns : DelClear(c)
  \/ \E c \in Conns : DelFileGet(c)
  \/ \E c \in Conns : DelFileUpd(c)
  \/ \E c \in Conns : DelDelete(c)
  \/ \E c \in Conns : DelCommit(c)
  \/ \E c \in Conns : DelRollback(c)
  \/ \E reply \in {NoId, 1} : HttpSend("u2", "R1", "hi", reply)

SpecDelete == InitDelete /\ [][NextDelete]_vars

\* ------------------------------------------------------------ C6

\* C6: when deleteMessage deletes M1, every message M2 that replied to M1
\* when the deletion was requested still exists with its reply link
\* cleared, and no message other than M1 is gone (one that a deleteMessage
\* of its own removed aside).
C6RepliesSurvive ==
  [][\A c \in Conns :
       (hs[c]["del"].pc = "delete" /\ hs'[c]["del"].pc = "commit")
       => \A m \in hist.atCall[c].messages :
            (m.id # hs[c]["del"].id /\ m.id \notin hist.deleted)
            => \E n \in messages' :
                 /\ n.id = m.id
                 /\ m.reply_to_message_id = hs[c]["del"].id => n.reply_to_message_id = NoId]_vars

\* ------------------------------------------------------------ C7

\* C7: when deleteMessage of a file message fails at the update of the file
\* record, then as the error is returned the message row exists, every
\* reply to it still carries its reply link, and the file record is as it
\* was when the deletion was requested (no deleteMessage having removed any
\* of them meanwhile).
C7FailedDeleteLeavesAll ==
  [][\A c \in Conns :
       ( /\ hs[c]["del"].pc = "rollback" /\ hs[c]["del"].why = "file"
         /\ hs'[c]["del"].pc = "idle"
         /\ hist.deleted = {} )
       => /\ \E n \in messages' : n.id = hs[c]["del"].id
          /\ \A m \in hist.atCall[c].messages :
               m.reply_to_message_id = hs[c]["del"].id => m \in messages'
          /\ files'[hs[c]["del"].file_id] = hist.atCall[c].files[hs[c]["del"].file_id]]_vars


\* ------------------------------------------------------------ anonymous entry

\* POST /anonymous, UserService.createAnonymousUser: a fresh uid, the row
\* INSERTed with mute_until = Date.now() + config.anonymous.muteDuration
CreateAnonymous(a, r) ==
  /\ a \in Anons
  /\ anonymous_users[a] = NoRow
  /\ calls < MaxCalls
  /\ calls' = calls + 1
  /\ anonymous_users' = [anonymous_users EXCEPT ![a] =
       [chatroom_id |-> r, mute_until |-> now + muteDuration, is_active |-> TRUE,
        join_time |-> now]]
  /\ hist' = [hist EXCEPT !.resp = "ok"]
  /\ UNCHANGED <<now, chatrooms, chatroom_members, chatroom_admins, user_mutes,
                 messages, files, nextId, tx, memVars, emitted>>

\* R1 (no password) with its creator u1 present over c1; no anonymous
\* principal exists yet
InitAnon ==
  /\ InitStore
  /\ onlineUsers = [r \in Rooms |-> IF r = "R1" THEN <<"u1">> ELSE <<>>]
  /\ userSockets = [u \in Uids |-> IF u = "u1" THEN "c1" ELSE NULL]
  /\ socks = [c \in Conns |->
       IF c = "c1"
       THEN [state |-> "open", uid |-> "u1", currentRoom |-> "R1", rooms |-> {"R1"}]
       ELSE [state |-> "new", uid |-> NULL, currentRoom |-> NULL, rooms |-> {}]]
  /\ hs = [c \in Conns |-> [k \in Kinds |-> IdleFrame]]
  /\ emitted = <<>>
  /\ calls = 0
  /\ hist = Hist0

\* the anonymous a1 is created for R1, connects over c3, joins R1 and sends
\* valid text; time passes
NextAnon ==
  \/ Tick
  \/ CreateAnonymous("a1", "R1")
  \/ Connect("c3", "a1")
  \/ JoinRoom("c3", "R1")
  \/ JoinInfo("c3")
  \/ JoinMember("c3")
  \/ JoinList("c3")
  \/ SendMessage("c3", "R1", "hi", NoId)
  \/ SendActivity("c3")
  \/ SendMuteRecord("c3")
  \/ SendMuteAnon("c3")
  \/ SendInsert("c3")
  \/ SendPost("c3")

SpecAnon == InitAnon /\ [][NextAnon]_vars

\* ------------------------------------------------------------ C11

\* the answers the server gave to the sends of uid, in order: the errors of
\* send-message and the new-message broadcasts
SendAnswers(uid) ==
  SelectSeq(emitted, LAMBDA e :
    /\ e.uid = uid
    /\ \/ e.type = "new-message"
       \/ (e.type = "error" /\ e.list # <<>>))

IssuedMuteIdx(uid, r) ==
  {i \in 1..Len(user_mutes) :
     user_mutes[i].chatroom_id = r /\ user_mutes[i].user_uid = uid}

LastIssuedMute(uid, r) ==
  user_mutes[CHOOSE i \in IssuedMuteIdx(uid, r) :
               \A j \in IssuedMuteIdx(uid, r) : j <= i]

UploadFile(p, r, fid, name, size) ==
  /\ calls < MaxCalls
  /\ calls' = calls + 1
  /\ files[fid] = NoRow
  /\ IF chatroom_members[<<r, p>>] = NoRow \/ ~chatroom_members[<<r, p>>].is_active
     THEN /\ hist' = [hist EXCEPT !.resp = "Forbidden"]
          /\ UNCHANGED files
     ELSE /\ files' = [files EXCEPT ![fid] =
               [message_id |-> NoId, is_expired |-> FALSE, on_disk |-> TRUE,
                uploader_uid |-> p, chatroom_id |-> r,
                original_name |-> name, file_size |-> size,
                expiry_time |-> now + fileValidity]]
          /\ hist' = [hist EXCEPT !.resp = "ok"]
  /\ UNCHANGED <<now, chatrooms, chatroom_members, chatroom_admins, user_mutes,
                 anonymous_users, messages, nextId, tx, memVars, emitted>>

\* SELECT * FROM files WHERE file_id = ? AND uploader_uid = ?
\*   AND chatroom_id = ? AND is_expired = 0
fileOf(fid, p, r) ==
  /\ files[fid] # NoRow
  /\ files[fid].uploader_uid = p
  /\ files[fid].chatroom_id = r
  /\ ~files[fid].is_expired

\* POST /:roomId/messages/file: the answer
SendFileOutcome(p, r, fid, name, size) ==
  IF p \in Anons /\ (anonymous_users[p] = NoRow \/ ~anonymous_users[p].is_active)
  THEN "Forbidden"
  ELSE IF p \in Anons /\ isUserMuted(anonymous_users[p].mute_until) THEN "Muted"
  ELSE IF ~fileOf(fid, p, r) THEN "NotFound"
  ELSE IF now > files[fid].expiry_time THEN "Gone"
  ELSE IF size <= 0 THEN "Invalid"
  ELSE IF checkUserMuted(p, r) THEN "Muted"
  ELSE "ok"

\* POST /:roomId/messages/file with the token of principal p:
\* authenticateToken, checkMuteStatus, validateRequest, the lookup of the
\* file, the expiry check (which marks the row expired), sendMessage with
\* the fileName and fileSize of the request body and the expiry_time of the
\* row, UPDATE files SET message_id, new-message to the room
SendFile(p, r, fid, name, size) ==
  LET out == SendFileOutcome(p, r, fid, name, size) IN
  /\ calls < MaxCalls
  /\ calls' = calls + 1
  /\ hist' = [hist EXCEPT !.resp = out]
  /\ IF out = "ok"
     THEN /\ messages' = messages \cup
               {messageRow(r, p, NoId,
                  [id |-> fid, name |-> name, size |-> size,
                   expiry |-> files[fid].expiry_time])}
          /\ nextId' = nextId + 1
          /\ files' = [files EXCEPT ![fid].message_id = nextId]
          /\ emitted' = Append(emitted,
               Event("new-message", r, p, <<nextId>>, RoomAll(r)))
     ELSE IF out = "Gone"
     THEN /\ files' = [files EXCEPT ![fid].is_expired = TRUE]
          /\ UNCHANGED <<messages, nextId, emitted>>
     ELSE UNCHANGED <<messages, nextId, files, emitted>>
  /\ UNCHANGED <<now, chatrooms, chatroom_members, chatroom_admins, user_mutes,
                 anonymous_users, tx, memVars>>

\* R1 in use as in InitSend; no file was uploaded yet
InitFile ==
  /\ now = 0
  /\ chatrooms = Chatrooms0
  /\ chatroom_members = [x \in Rooms \X Uids |->
       IF x[1] = "R1" /\ x[2] # "u3"
       THEN [status |-> "online", is_active |-> TRUE] ELSE NoRow]
  /\ chatroom_admins = {}
  /\ user_mutes = <<>>
  /\ anonymous_users = [a \in Anons |->
       [chatroom_id |-> "R1", mute_until |-> muteDuration, is_active |-> TRUE,
        join_time |-> 0]]
  /\ messages = {}
  /\ files = [x \in FileIds |-> NoRow]
  /\ nextId = 1
  /\ tx = [active |-> FALSE]
  /\ onlineUsers = [r \in Rooms |-> IF r = "R1" THEN <<"u1", "u2", "a1">> ELSE <<>>]
  /\ userSockets = [u \in Uids |->
       CASE u = "u1" -> "c1" [] u = "u2" -> "c2" [] u = "a1" -> "c3" [] OTHER -> NULL]
  /\ socks = [c \in Conns |-> [state |-> "open", uid |-> SendHolder[c],
                               currentRoom |-> "R1", rooms |-> {"R1"}]]
  /\ hs = [c \in Conns |-> [k \in Kinds |-> IdleFrame]]
  /\ emitted = <<>>
  /\ calls = 0
  /\ hist = Hist0

\* u2 and u3 upload, u1 and u2 send file messages, time passes
NextFile ==
  \/ Tick
  \/ \E p \in {"u2", "u3"}, name \in Names, size \in Sizes :
       UploadFile(p, "R1", "f1", name, size)
  \/ \E p \in {"u1", "u2"}, r \in Rooms, name \in Names, size \in Sizes :
       SendFile(p, r, "f1", name, size)

SpecFile == InitFile /\ [][NextFile]_vars

\* ------------------------------------------------------------ C13

\* C13: a message row that references a file F is inserted only by F's
\* uploader, in F's room, not after F's expiry, and it carries F's id,
\* name, size and expiry; a file message sent after the expiry or by
\* another principal inserts no row
C13FileMessage ==
  [][\A m \in messages' \ messages :
       m.file_id # NULL =>
         /\ m.file_id \in DOMAIN files
         /\ files[m.file_id] # NoRow
         /\ files[m.file_id].uploader_uid = m.sender_uid
         /\ files[m.file_id].chatroom_id = m.chatroom_id
         /\ now <= files[m.file_id].expiry_time
         /\ m.file_name = files[m.file_id].original_name
         /\ m.file_size = files[m.file_id].file_size
         /\ m.file_expiry = files[m.file_id].expiry_time]_vars


\* ------------------------------------------------------------ bulk deletion

\* the columns of the messages table: CREATE TABLE and the ALTER TABLE
\* statements of createTables
MessageColumns ==
  {"id", "message_id", "chatroom_id", "sender_uid", "sender_type", "content",
   "message_type", "system_message_type", "visibility_scope",
   "visible_to_users", "reply_to_message_id", "is_deleted", "created_at",
   "image_url", "bilibili_bv", "markdown_content", "file_id", "file_name",
   "file_size", "file_expiry"}

EndBulk(c) == [hs EXCEPT ![c]["bulk"] = IdleFrame]

\* DELETE /:roomId/messages/user/:targetUid by the principal of c:
\* requireChatroomAdmin, then deleteUserMessages checks the permission and
\* the creator's uid; a permitted call goes on to BEGIN TRANSACTION
DeleteUserMessages(c, r, target) ==
  /\ socks[c].state = "open"
  /\ hs[c]["bulk"].pc = "idle"
  /\ calls < MaxCalls
  /\ calls' = calls + 1
  /\ IF ~checkAdminPermission(uidOf(c), r)
     THEN /\ hist' = [hist EXCEPT !.resp = "Forbidden",
                 !.atCall[c] = [messages |-> messages, files |-> files]]
          /\ UNCHANGED hs
     ELSE IF chatrooms[r].creator_uid = target
     THEN /\ hist' = [hist EXCEPT !.resp = "CreatorTarget",
                 !.atCall[c] = [messages |-> messages, files |-> files]]
          /\ UNCHANGED hs
     ELSE /\ hist' = [hist EXCEPT
                 !.atCall[c] = [messages |-> messages, files |-> files]]
          /\ hs' = [hs EXCEPT ![c]["bulk"] =
                 [pc |-> "begin", room |-> r, target |-> target]]
  /\ UNCHANGED <<now, dbVars, onlineUsers, userSockets, socks, emitted>>

\* deleteUserMessages: BEGIN TRANSACTION on the shared connection
BulkBegin(c) ==
  LET f == hs[c]["bulk"] IN
  /\ f.pc = "begin"
  /\ IF tx.active
     THEN /\ hs' = [hs EXCEPT ![c]["bulk"].pc = "rollback"]
          /\ UNCHANGED tx
     ELSE /\ hs' = [hs EXCEPT ![c]["bulk"].pc = "select"]
          /\ tx' = [active |-> TRUE, rows |-> StoreRows]
  /\ UNCHANGED <<now, chatrooms, chatroom_members, chatroom_admins, user_mutes,
                 anonymous_users, messages, files, nextId, onlineUsers, userSockets,
                 socks, emitted, calls, hist>>

\* deleteUserMessages: the SELECT of the target's file messages returned
BulkSelect(c) ==
  LET f == hs[c]["bulk"] IN
  /\ f.pc = "select"
  /\ hs' = [hs EXCEPT ![c]["bulk"].pc = "update"]
  /\ UNCHANGED <<now, dbVars, onlineUsers, userSockets, socks, emitted, calls, hist>>

\* deleteUserMessages: UPDATE messages SET is_deleted = 1, deleted_by = ?,
\* deleted_at = ? names columns the table does not have; the statement
\* fails and the catch block takes over (the rest of the try block is
\* never reached)
BulkUpdate(c) ==
  LET f == hs[c]["bulk"] IN
  /\ f.pc = "update"
  /\ ~({"is_deleted", "deleted_by", "deleted_at"} \subseteq MessageColumns)
  /\ hs' = [hs EXCEPT ![c]["bulk"].pc = "rollback"]
  /\ UNCHANGED <<now, dbVars, onlineUsers, userSockets, socks, emitted, calls, hist>>

\* deleteUserMessages, catch block: ROLLBACK ends whichever transaction is
\* open on the connection and restores the tables to its BEGIN; with none
\* open it fails.  Either way the caller gets the error
BulkRollback(c) ==
  LET f == hs[c]["bulk"] IN
  /\ f.pc = "rollback"
  /\ hs' = EndBulk(c)
  /\ hist' = [hist EXCEPT !.resp = "Error"]
  /\ IF tx.active
     THEN /\ tx' = [active |-> FALSE]
          /\ chatrooms' = tx.rows.chatrooms
          /\ chatroom_members' = tx.rows.chatroom_members
          /\ chatroom_admins' = tx.rows.chatroom_admins
          /\ user_mutes' = tx.rows.user_mutes
          /\ anonymous_users' = tx.rows.anonymous_users
          /\ messages' = tx.rows.messages
          /\ files' = rolledBackFiles(tx.rows)
          /\ nextId' = tx.rows.nextId
     ELSE UNCHANGED dbVars
  /\ UNCHANGED <<now, onlineUsers, userSockets, socks, emitted, calls>>

\* R1 as in InitDelete, with u2 an admin of it
InitBulk ==
  /\ now = 0
  /\ chatrooms = Chatrooms0
  /\ chatroom_members = [x \in Rooms \X Uids |->
       IF x[1] = "R1" /\ x[2] # "u3"
       THEN [status |-> "online", is_active |-> TRUE] ELSE NoRow]
  /\ chatroom_admins = {<<"R1", "u2">>}
  /\ user_mutes = <<>>
  /\ anonymous_users = [a \in Anons |->
       [chatroom_id |-> "R1", mute_until |-> muteDuration, is_active |-> TRUE,
        join_time |-> 0]]
  /\ messages =
       {[id |-> 1, chatroom_id |-> "R1", sender_uid |-> "u2",
         sender_type |-> "user",
         reply_to_message_id |-> NoId, file_id |-> "f1",
         file_name |-> "n1", file_size |-> 1, file_expiry |-> MaxTime,
         is_deleted |-> FALSE],
        [id |-> 2, chatroom_id |-> "R1", sender_uid |-> "u1",
         sender_type |-> "user",
         reply_to_message_id |-> 1, file_id |-> NULL,
         file_name |-> NULL, file_size |-> 0, file_expiry |-> NoTime,
         is_deleted |-> FALSE]}
  /\ files = [x \in FileIds |->
       [message_id |-> 1, is_expired |-> FALSE, on_disk |-> TRUE,
        uploader_uid |-> "u2", chatroom_id |-> "R1",
        original_name |-> "n1", file_size |-> 1, expiry_time |-> MaxTime]]
  /\ nextId = 3
  /\ tx = [active |-> FALSE]
  /\ onlineUsers = [r \in Rooms |-> IF r = "R1" THEN <<"u1", "u2", "a1">> ELSE <<>>]
  /\ userSockets = [u \in Uids |->
       CASE u = "u1" -> "c1" [] u = "u2" -> "c2" [] u = "a1" -> "c3" [] OTHER -> NULL]
  /\ socks = [c \in Conns |-> [state |-> "open", uid |-> SendHolder[c],
                               currentRoom |-> "R1", rooms |-> {"R1"}]]
  /\ hs = [c \in Conns |-> [k \in Kinds |-> IdleFrame]]
  /\ emitted = <<>>
  /\ calls = 0
  /\ hist = Hist0

\* the creator u1, the admin u2 and the anonymous a1 ask for bulk deletions
\* of the messages of u1 and of u2 while u1 and u2 post over HTTP
NextBulk ==
  \/ \E c \in Conns, target \in {"u1", "u2"} : DeleteUserMessages(c, "R1", target)
  \/ \E c \in Conns : BulkBegin(c)
  \/ \E c \in Conns : BulkSelect(c)
  \/ \E c \in Conns : BulkUpdate(c)
  \/ \E c \in Conns : BulkRollback(c)
  \/ \E p \in {"u1", "u2"} : HttpSend(p, "R1", "hi", NoId)

SpecBulk == InitBulk /\ [][NextBulk]_vars

\* ------------------------------------------------------------ C14

\* a deleteUserMessages call of some connection takes this step
BulkStep ==
  \E c \in Conns :
    \/ hs'[c]["bulk"] # hs[c]["bulk"]
    \/ hist'.atCall[c] # hist.atCall[c]
    \/ (hist'.resp \in {"Forbidden", "CreatorTarget"} /\ calls' # calls)

\* C14: no step of a deleteUserMessages call removes a message of the
\* room's creator or marks one deleted, whoever asks and whoever the target
\* is; a call whose target is the creator is rejected and changes no message
C14CreatorMessagesKept ==
  [][BulkStep =>
       /\ \A m \in messages :
            m.sender_uid = chatrooms[m.chatroom_id].creator_uid => m \in messages'
       /\ (hist'.resp = "CreatorTarget" /\ calls' # calls) => messages' = messages]_vars


\* ------------------------------------------------------------ C15

\* C15: a deleteUserMessages call by an admin or the creator against a
\* target other than the creator succeeds, and when it returns every
\* message of the target in the room is marked deleted while the messages
\* of the other senders and rooms are as they were; a call by a non-admin
\* is rejected and changes no message
C15BulkDeleteMarks ==
  [][\A c \in Conns :
       LET f == hs[c]["bulk"] IN
       /\ (f.pc # "idle" /\ hs'[c]["bulk"].pc = "idle")
          => /\ hist'.resp = "ok"
             /\ \A m \in messages' :
                  (m.chatroom_id = f.room /\ m.sender_uid = f.target) => m.is_deleted
             /\ \A m \in messages :
                  ~(m.chatroom_id = f.room /\ m.sender_uid = f.target) => m \in messages'
       /\ (/\ hist'.atCall[c] # hist.atCall[c]
           /\ hist'.resp = "Forbidden")
          => messages' = messages]_vars


\* ------------------------------------------------------------ C16

\* C16: a deleteMessage request succeeds only when the requester is the
\* sender of the message, an admin of the room or its creator; for any
\* other requester the permission check rejects it, and no step of the
\* request up to and including the rejection changes a message row, a
\* reply link or a file record
C16DeleteNeedsRight ==
  [][\A c \in Conns :
       LET f == hs[c]["del"]
           right == \/ f.sender_uid = uidOf(c)
                    \/ chatrooms[f.room].creator_uid = uidOf(c)
                    \/ <<f.room, uidOf(c)>> \in chatroom_admins
       IN
       /\ (f.pc = "commit" /\ hs'[c]["del"].pc = "idle")
          => right
       /\ (f.pc = "perm" /\ hs'[c]["del"] # f /\ ~right)
          => /\ hs'[c]["del"].pc = "idle"
             /\ hist'.resp = "Forbidden"
       /\ (f.pc \in {"idle", "read", "perm"} /\ hs'[c]["del"] # f)
          => /\ messages' = messages
             /\ files' = files]_vars

\* u2, neither the sender of message 2 nor an admin, asked to delete it and
\* was turned away; message 2 and its reply link are as they were
C16Witness ==
  /\ hist.resp = "Forbidden"
  /\ \E m \in messages :
       m.id = 2 /\ m.sender_uid = "u1" /\ m.reply_to_message_id = 1
  /\ \A c \in Conns : hs[c]["del"].pc = "idle"


\* ------------------------------------------------------------ C17

\* C17: a step changes the admin grants of a room only when it is a
\* request (setAdmin, removeAdmin, kick) of that room's creator; a setAdmin
\* or removeAdmin request of anyone else, an admin included, is answered
\* with the permission error and leaves the grants as they are
C17OnlyCreatorGrants ==
  [][/\ \A r \in Rooms, u \in Uids :
          (<<r, u>> \in chatroom_admins) # (<<r, u>> \in chatroom_admins')
            => /\ calls' # calls
               /\ hist'.by = chatrooms[r].creator_uid
               /\ hist'.op \in {"admin", "kick"}
     /\ (/\ calls' # calls
         /\ hist'.op = "admin"
         /\ hist'.by # chatrooms["R1"].creator_uid)
        => /\ hist'.resp = "Forbidden"
           /\ chatroom_admins' = chatroom_admins]_vars

\* u2 holds a grant given by the creator, and its own request to grant or
\* revoke was turned away
C17Witness ==
  /\ <<"R1", "u2">> \in chatroom_admins
  /\ hist.by = "u2"
  /\ hist.op = "admin"
  /\ hist.resp = "Forbidden"


\* ------------------------------------------------------------ C18

\* the mute records of room r that target its creator
CreatorMutes(r) ==
  {i \in 1..Len(user_mutes) :
     /\ user_mutes[i].chatroom_id = r
     /\ user_mutes[i].user_uid = chatrooms[r].creator_uid}

\* C18: a mute request of someone who is neither admin nor creator of the
\* room, or one that targets the room's creator, is rejected and creates no
\* mute record; so no mute record ever targets the creator of its room and
\* checkUserMuted of the creator is false
C18CreatorNeverMuted ==
  /\ [][(/\ calls' # calls
         /\ hist'.op = "mute"
         /\ \/ ~checkAdminPermission(hist'.by, "R1")
            \/ hist'.target = chatrooms["R1"].creator_uid)
        => /\ hist'.resp \in {"Forbidden", "CreatorTarget"}
           /\ user_mutes' = user_mutes
           /\ anonymous_users' = anonymous_users]_vars
  /\ [](\A r \in Rooms :
          /\ CreatorMutes(r) = {}
          /\ ~checkUserMuted(chatrooms[r].creator_uid, r))

\* the admin u2 asked to mute the creator and was turned away
C18Witness ==
  /\ hist.op = "mute"
  /\ hist.by = "u2"
  /\ hist.target = chatrooms["R1"].creator_uid
  /\ <<"R1", "u2">> \in chatroom_admins
  /\ hist.resp = "CreatorTarget"


\* ------------------------------------------------------------ C19

\* C19: a kick request of someone who is not the room's creator, or one
\* whose target is the requester, is rejected, and the rejected request
\* leaves memberships, admin grants and mute records as they were
C19KickRejected ==
  [][(/\ calls' # calls
      /\ hist'.op = "kick"
      /\ \/ hist'.by # chatrooms["R1"].creator_uid
         \/ hist'.target = hist'.by)
     => /\ hist'.resp \in {"Forbidden", "Self"}
        /\ chatroom_members' = chatroom_members
        /\ chatroom_admins' = chatroom_admins
        /\ user_mutes' = user_mutes
        /\ anonymous_users' = anonymous_users]_vars

\* the creator asked to kick itself, was turned away, and is still a member
C19Witness ==
  /\ hist.op = "kick"
  /\ hist.by = chatrooms["R1"].creator_uid
  /\ hist.target = hist.by
  /\ hist.resp = "Self"
  /\ chatroom_members[<<"R1", hist.by>>].is_active


\* ------------------------------------------------------------ C20

\* C20: after a successful kick of t from the room, the membership of t has
\* status left and checkUserMuted of t in the room is false, whether t is
\* registered or anonymous
C20KickClearsMutes ==
  [][\A t \in Uids :
       (/\ calls' # calls
        /\ hist'.op = "kick"
        /\ hist'.target = t
        /\ hist'.resp = "ok")
       => /\ chatroom_members'[<<"R1", t>>].status = "left"
          /\ ~(checkUserMuted(t, "R1"))']_vars


\* ------------------------------------------------------------ rejoin after a kick

\* the creator kicks members of R1 while the members u2 and a1, each on its
\* socket, join and leave
NextRejoin ==
  \/ \E by \in {"u1", "u2"}, t \in {"u2", "a1"} : KickUser(by, "R1", t)
  \/ \E c \in {"c2", "c3"} : JoinRoom(c, "R1")
  \/ \E c \in {"c2", "c3"} : JoinInfo(c)
  \/ \E c \in {"c2", "c3"} : JoinMember(c)
  \/ \E c \in {"c2", "c3"} : JoinList(c)
  \/ \E c \in {"c2", "c3"} : LeaveRoom(c)
  \/ \E c \in {"c2", "c3"} : LeaveOffline(c, "leave")
  \/ \E c \in {"c2", "c3"} : LeaveList(c, "leave")

SpecRejoin == InitSend /\ [][NextRejoin]_vars

\* ------------------------------------------------------------ C21

\* C21: a join-room of a kicked principal, issued after the kick on a socket
\* used one request at a time and not overtaken by another kick, succeeds:
\* the handler ends with room-joined, the membership is online again and
\* the principal is in the room's online list
C21RejoinAfterKick ==
  [][\A c \in Conns, r \in Rooms, u \in Uids :
       (/\ hist.rejoin[c]
        /\ ~hist.raced[c]
        /\ hs[c]["join"].pc # "idle"
        /\ hs[c]["join"].room = r
        /\ uidOf(c) = u
        /\ hs'[c]["join"].pc = "idle")
       => /\ emitted'[Len(emitted')].type = "room-joined"
          /\ emitted'[Len(emitted')].to = {c}
          /\ Contains(emitted'[Len(emitted')].list, u)
          /\ chatroom_members'[<<r, u>>] = [status |-> "online", is_active |-> TRUE]
          /\ Contains(ListOnline(r), u)']_vars

\* u2 was kicked from R1, joined again, and is an online member
C21Witness ==
  /\ <<"R1", "u2">> \in hist.rejoined
  /\ ~hist.raced["c2"]
  /\ chatroom_members[<<"R1", "u2">>].status = "online"
  /\ Contains(ListOnline("R1"), "u2")


\* ------------------------------------------------------------ closing a room

\* ChatroomService.closeChatroom, its outcome
closeChatroomOutcome(by, r) ==
  IF r \notin Rooms \/ chatrooms[r].creator_uid # by THEN "Forbidden" ELSE "ok"

\* DELETE /:roomId: closeChatroom deactivates the room, its anonymous users
\* and its memberships; then a persistent system message and room-dissolved
\* to the room.  The registry and the sockets are left as they are
CloseChatroom(by, r) ==
  /\ calls < MaxCalls
  /\ calls' = calls + 1
  /\ hist' = [Asked(by, "close", NULL) EXCEPT !.resp = closeChatroomOutcome(by, r)]
  /\ IF closeChatroomOutcome(by, r) = "ok"
     THEN /\ chatrooms' = [chatrooms EXCEPT ![r].is_active = FALSE]
          /\ anonymous_users' = [a \in Anons |->
               IF anonymous_users[a] # NoRow /\ anonymous_users[a].chatroom_id = r
               THEN [anonymous_users[a] EXCEPT !.is_active = FALSE]
               ELSE anonymous_users[a]]
          /\ chatroom_members' = [x \in Rooms \X Uids |->
               IF x[1] = r /\ chatroom_members[x] # NoRow
               THEN [status |-> "left", is_active |-> FALSE]
               ELSE chatroom_members[x]]
          /\ messages' = messages \cup {systemRow(r)}
          /\ nextId' = nextId + 1
          /\ emitted' = Append(emitted, Event("room-dissolved", r, by, <<>>, RoomAll(r)))
     ELSE UNCHANGED <<chatrooms, anonymous_users, chatroom_members, messages,
                      nextId, emitted>>
  /\ UNCHANGED <<now, chatroom_admins, user_mutes, files, tx, memVars>>

\* two principals connect and join rooms, the missing one included, while
\* the creator (or someone else) asks to close R1
NextClosed ==
  \/ \E c \in PresenceConns : Connect(c, Holder[c])
  \/ \E c \in PresenceConns, r \in {"R1", MissingRoom} : JoinRoom(c, r)
  \/ \E c \in PresenceConns : JoinInfo(c)
  \/ \E c \in PresenceConns : JoinMember(c)
  \/ \E c \in PresenceConns : JoinList(c)
  \/ \E by \in {"u1", "u2"} : CloseChatroom(by, "R1")

SpecClosed == Init /\ [][NextClosed]_vars

\* ------------------------------------------------------------ C22

\* C22: when join-room finds no active row for the room (the room is
\* missing or closed), the handler ends with an error to the requesting
\* socket alone; the registry, the memberships and the socket's current room
\* stay as they were and no joined event is emitted
C22JoinClosedRoom ==
  [][\A c \in Conns :
       (/\ hs[c]["join"].pc = "info"
        /\ hs'[c]["join"].pc # "info"
        /\ ~ActiveRoom(hs[c]["join"].room))
       => /\ hs'[c]["join"] = IdleFrame
          /\ emitted' = Append(emitted,
               Event("error", hs[c]["join"].room, uidOf(c), <<>>, {c}))
          /\ UNCHANGED <<onlineUsers, userSockets, chatroom_members, socks>>]_vars

\* c2 asked to join the closed room R1 and the missing room, and got an
\* error for each without ever being put in a room
C22Witness ==
  /\ ~chatrooms["R1"].is_active
  /\ socks["c2"].state = "open"
  /\ socks["c2"].currentRoom = NULL
  /\ \E i \in 1..Len(emitted) :
       emitted[i] = Event("error", "R1", "u2", <<>>, {"c2"})
  /\ \E i \in 1..Len(emitted) :
       emitted[i] = Event("error", MissingRoom, "u2", <<>>, {"c2"})


\* ------------------------------------------------------------ C23

\* the step of c's handler of kind k that runs the membership UPDATE of
\* handleUserLeaveRoom for room r
LeaveWrites(c, k, r) ==
  /\ hs[c][k].pc = "offline"
  /\ hs[c][k].room = r
  /\ hs'[c][k].pc # "offline"
  /\ chatroom_members[<<r, uidOf(c)>>] # NoRow

\* C23: the leave that a disconnect triggers sets the membership to
\* offline, the leave that the leave-room event asks for sets it to left
C23LeaveStatus ==
  [][\A c \in Conns, r \in Rooms :
       /\ LeaveWrites(c, "disc", r)
            => chatroom_members'[<<r, uidOf(c)>>].status = "offline"
       /\ LeaveWrites(c, "leave", r)
            => chatroom_members'[<<r, uidOf(c)>>].status = "left"]_vars


\* ------------------------------------------------------------ credentials

\* hist.by, hist.op, hist.resp: the credential and the answer of the latest
\* failed or HTTP resolve; hist.resolves: their number; hist.expired: the
\* anonymous principals a resolve found expired and no rejoin has
\* reactivated since; hist.refused: the sockets io.use refused, each with
\* the credential it presented
Resolved(cred) ==
  [Asked(cred, "resolve", NULL) EXCEPT
     !.resp = resolve(cred),
     !.resolves = @ + 1,
     !.swept = @ \ {cred},
     !.expired = IF resolve(cred) = "AnonymousSessionExpired"
                 THEN @ \cup {cred} ELSE @]

\* io.use calls next(error): Socket.IO refuses the connection, the
\* connection event never fires and no handler is registered on the socket
ConnectRejected(c, cred) ==
  /\ socks[c].state = "new"
  /\ resolve(cred) # "ok"
  /\ calls < MaxCalls
  /\ calls' = calls + 1
  /\ socks' = [socks EXCEPT ![c].state = "rejected"]
  /\ anonymous_users' = resolveStore(cred)
  /\ hist' = [Resolved(cred) EXCEPT !.refused = @ \cup {<<c, cred>>}]
  /\ UNCHANGED <<now, chatrooms, chatroom_members, chatroom_admins, user_mutes,
                 messages, files, nextId, tx, onlineUsers, userSockets, hs, emitted>>

\* an HTTP request through authenticateToken (GET /me): the credential is
\* resolved and the request answered
Authenticate(cred) ==
  /\ calls < MaxCalls
  /\ calls' = calls + 1
  /\ anonymous_users' = resolveStore(cred)
  /\ hist' = Resolved(cred)
  /\ UNCHANGED <<now, chatrooms, chatroom_members, chatroom_admins, user_mutes,
                 messages, files, nextId, tx, memVars, emitted>>

\* a reactivation that keeps a mute that ends later than the fresh one
reactivateKeepsLaterMute(a, r) ==
  [chatroom_id |-> r,
   mute_until |-> IF anonymous_users[a].mute_until > now + muteDuration
                  THEN anonymous_users[a].mute_until ELSE now + muteDuration,
   is_active |-> TRUE, join_time |-> now]

\* UserService.reactivateAnonymousUser: the row after its UPDATE
\* (is_active = 1, mute_until = now + muteDuration, join_time = now)
reactivateRow(a, r) ==
  [chatroom_id |-> r, mute_until |-> now + muteDuration,
   is_active |-> TRUE, join_time |-> now]

\* POST /anonymous/rejoin, UserService.reactivateAnonymousUser: the record
\* of (uid, room) is made active again with a fresh mute and join time
Reactivate(a, r) ==
  /\ calls < MaxCalls
  /\ calls' = calls + 1
  /\ IF anonymous_users[a] # NoRow /\ anonymous_users[a].chatroom_id = r
     THEN /\ anonymous_users' = [anonymous_users EXCEPT ![a] = reactivateRow(a, r)]
          /\ hist' = [Asked(a, "rejoin", NULL) EXCEPT !.resp = "ok",
                                                     !.expired = @ \ {a}]
     ELSE /\ hist' = [Asked(a, "rejoin", NULL) EXCEPT !.resp = "PrincipalNotFound"]
          /\ UNCHANGED anonymous_users
  /\ UNCHANGED <<now, chatrooms, chatroom_members, chatroom_admins, user_mutes,
                 messages, files, nextId, tx, memVars, emitted>>

\* R1 with the anonymous principal a1 created at instant 0; no socket yet
InitAuth ==
  /\ now = 0
  /\ chatrooms = Chatrooms0
  /\ chatroom_members = [x \in Rooms \X Uids |-> NoRow]
  /\ chatroom_admins = {}
  /\ user_mutes = <<>>
  /\ anonymous_users = [a \in Anons |->
       [chatroom_id |-> "R1", mute_until |-> muteDuration, is_active |-> TRUE,
        join_time |-> 0]]
  /\ messages = {}
  /\ files = [f \in {} |-> NoRow]
  /\ nextId = 1
  /\ tx = [active |-> FALSE]
  /\ InitMem

\* the credentials presented in SpecAuth
AuthCreds == {"missing", "invalid", "u4", "a1", "u2"}

AuthConns == {"c2", "c3"}

NextAuth ==
  \/ Tick
  \/ \E c \in AuthConns, u \in {"u2", "a1", "u4"} : Connect(c, u)
  \/ \E c \in AuthConns, cred \in AuthCreds : ConnectRejected(c, cred)
  \/ \E cred \in AuthCreds : Authenticate(cred)
  \/ \E r \in Rooms : Reactivate("a1", r)
  \/ \E c \in AuthConns : JoinRoom(c, "R1")
  \/ \E c \in AuthConns : JoinInfo(c)
  \/ \E c \in AuthConns : JoinMember(c)
  \/ \E c \in AuthConns : JoinList(c)

SpecAuth == InitAuth /\ [][NextAuth]_vars

\* ------------------------------------------------------------ C24

\* the step is a resolve of the anonymous credential a
ResolveStep(a) ==
  /\ hist'.resolves # hist.resolves
  /\ hist'.by = a

\* C24: a resolve of an anonymous credential whose record is active and
\* older than the session expiry fails with AnonymousSessionExpired and
\* leaves the record inactive; from then on no resolve of that credential
\* succeeds and no socket is opened for it until a rejoin reactivates it
C24ExpiredSession ==
  [][\A a \in Anons :
       /\ (/\ ResolveStep(a)
           /\ anonymous_users[a] # NoRow
           /\ anonymous_users[a].is_active
           /\ now - anonymous_users[a].join_time > sessionExpiry)
          => /\ hist'.resp = "AnonymousSessionExpired"
             /\ ~anonymous_users'[a].is_active
       /\ a \in hist.expired
          => /\ ResolveStep(a) => hist'.resp \in {"PrincipalNotFound",
                                                   "AnonymousSessionExpired"}
             /\ \A c \in Conns :
                  socks[c].state = "new" => ~(socks'[c].state = "open"
                                               /\ socks'[c].uid = a)
             /\ a \in hist'.expired => ~anonymous_users'[a].is_active]_vars

\* a1's session was found expired, and a later resolve of the same
\* credential failed as well
C24Witness ==
  /\ "a1" \in hist.expired
  /\ hist.op = "resolve"
  /\ hist.by = "a1"
  /\ hist.resp = "PrincipalNotFound"
  /\ ~anonymous_users["a1"].is_active


\* ------------------------------------------------------------ C25

\* the principal of credential cred exists, is not banned and, if anonymous,
\* is active and within its session
ValidPrincipal(cred) ==
  \/ cred \in Users
  \/ /\ cred \in Anons
     /\ anonymous_users[cred] # NoRow
     /\ anonymous_users[cred].is_active
     /\ now - anonymous_users[cred].join_time <= sessionExpiry

\* C25: a socket is established only for a credential that resolves to a
\* valid principal; a socket refused at the handshake is never put in
\* userSockets, never has a handler running and never receives an event
C25BadCredentialRejected ==
  /\ [][\A c \in Conns, cred \in Credentials :
          (socks[c].state = "new" /\ socks'[c].state = "open" /\ socks'[c].uid = cred)
            => ValidPrincipal(cred)]_vars
  /\ [][\A c \in Conns :
          (socks[c].state = "new" /\ socks'[c].state = "open")
            => socks'[c].uid \in Credentials \ {"missing", "invalid"}]_vars
  /\ [](\A x \in hist.refused :
          /\ socks[x[1]].state = "rejected"
          /\ socks[x[1]].rooms = {}
          /\ \A u \in Uids : userSockets[u] # x[1]
          /\ \A k \in Kinds : hs[x[1]][k] = IdleFrame
          /\ \A i \in 1..Len(emitted) : x[1] \notin emitted[i].to)

\* c2 presented the token of the banned u4 and c3 the token of a1 after its
\* session had expired; both were refused
C25Witness ==
  /\ <<"c2", "u4">> \in hist.refused
  /\ <<"c3", "a1">> \in hist.refused
  /\ "a1" \in hist.expired


\* ------------------------------------------------------------ sweeps

\* UserService.cleanupExpiredAnonymousUsers: UPDATE anonymous_users SET
\* is_active = 0 WHERE join_time < now - sessionExpiry AND is_active = 1
cleanupExpiredAnonymousUsers ==
  [a \in Anons |->
     IF /\ anonymous_users[a] # NoRow
        /\ anonymous_users[a].is_active
        /\ anonymous_users[a].join_time < now - sessionExpiry
     THEN [anonymous_users[a] EXCEPT !.is_active = FALSE]
     ELSE anonymous_users[a]]

\* the hourly timer of setupCleanupTasks.  hist.swept: the anonymous
\* principals the sweep deactivated while they held a socket and whose
\* credential has not been resolved since
Sweep ==
  /\ anonymous_users' = cleanupExpiredAnonymousUsers
  /\ hist' = [hist EXCEPT !.swept = @ \cup
       {a \in Anons : /\ HasSocket(a)
                      /\ anonymous_users[a] # NoRow
                      /\ anonymous_users[a].is_active
                      /\ ~cleanupExpiredAnonymousUsers[a].is_active}]
  /\ UNCHANGED <<now, chatrooms, chatroom_members, chatroom_admins, user_mutes,
                 messages, files, nextId, tx, memVars, emitted, calls>>

\* the daily timer of setupCleanupTasks, MessageService.cleanupOldMessages:
\* old is the set of rows whose created_at precedes the cutoff.  The deleted
\* ones among them are removed and their files marked expired, detached and
\* unlinked, in one transaction; when a transaction is already open BEGIN
\* fails and the catch block rolls that one back
CleanupOldMessages(old) ==
  LET gone == {m \in old : m.is_deleted}
      fids == {m.file_id : m \in {x \in gone : x.file_id # NULL}}
  IN
  /\ old \subseteq messages
  /\ IF tx.active
     THEN /\ tx' = [active |-> FALSE]
          /\ messages' = tx.rows.messages
          /\ files' = rolledBackFiles(tx.rows)
          /\ chatrooms' = tx.rows.chatrooms
          /\ chatroom_members' = tx.rows.chatroom_members
          /\ chatroom_admins' = tx.rows.chatroom_admins
          /\ user_mutes' = tx.rows.user_mutes
          /\ anonymous_users' = tx.rows.anonymous_users
          /\ nextId' = tx.rows.nextId
     ELSE /\ messages' = messages \ gone
          /\ files' = [x \in DOMAIN files |->
               IF x \in fids /\ files[x] # NoRow
               THEN [files[x] EXCEPT !.is_expired = TRUE, !.message_id = NoId,
                                     !.on_disk = FALSE]
               ELSE files[x]]
          /\ UNCHANGED <<chatrooms, chatroom_members, chatroom_admins, user_mutes,
                         anonymous_users, nextId, tx>>
  /\ UNCHANGED <<now, memVars, emitted, calls, hist>>

\* R1 with u1, u2 and the anonymous a1 present; message 1 (a file message)
\* was deleted, message 2 was not
InitSweep ==
  /\ now = 0
  /\ chatrooms = Chatrooms0
  /\ chatroom_members = [x \in Rooms \X Uids |->
       IF x[1] = "R1" /\ x[2] # "u3"
       THEN [status |-> "online", is_active |-> TRUE] ELSE NoRow]
  /\ chatroom_admins = {}
  /\ user_mutes = <<>>
  /\ anonymous_users = [a \in Anons |->
       [chatroom_id |-> "R1", mute_until |-> muteDuration, is_active |-> TRUE,
        join_time |-> 0]]
  /\ messages =
       {[id |-> 1, chatroom_id |-> "R1", sender_uid |-> "u2",
         sender_type |-> "user",
         reply_to_message_id |-> NoId, file_id |-> "f1",
         file_name |-> "n1", file_size |-> 1, file_expiry |-> MaxTime,
         is_deleted |-> TRUE],
        [id |-> 2, chatroom_id |-> "R1", sender_uid |-> "u1",
         sender_type |-> "user",
         reply_to_message_id |-> NoId, file_id |-> NULL,
         file_name |-> NULL, file_size |-> 0, file_expiry |-> NoTime,
         is_deleted |-> FALSE]}
  /\ files = [x \in FileIds |->
       [message_id |-> 1, is_expired |-> FALSE, on_disk |-> TRUE,
        uploader_uid |-> "u2", chatroom_id |-> "R1",
        original_name |-> "n1", file_size |-> 1, expiry_time |-> MaxTime]]
  /\ nextId = 3
  /\ tx = [active |-> FALSE]
  /\ onlineUsers = [r \in Rooms |-> IF r = "R1" THEN <<"u1", "u2", "a1">> ELSE <<>>]
  /\ userSockets = [u \in Uids |->
       CASE u = "u1" -> "c1" [] u = "u2" -> "c2" [] u = "a1" -> "c3" [] OTHER -> NULL]
  /\ socks = [c \in Conns |-> [state |-> "open", uid |-> SendHolder[c],
                               currentRoom |-> "R1", rooms |-> {"R1"}]]
  /\ hs = [c \in Conns |-> [k \in Kinds |-> IdleFrame]]
  /\ emitted = <<>>
  /\ calls = 0
  /\ hist = Hist0

\* the timers fire while u2 leaves and joins and a1's credential is used
\* over HTTP
NextSweep ==
  \/ Tick
  \/ Sweep
  \/ \E old \in SUBSET messages : CleanupOldMessages(old)
  \/ Authenticate("a1")
  \/ LeaveRoom("c2")
  \/ LeaveOffline("c2", "leave")
  \/ LeaveList("c2", "leave")
  \/ \E r \in Rooms : JoinRoom("c2", r)
  \/ JoinInfo("c2")
  \/ JoinMember("c2")
  \/ JoinList("c2")

SpecSweep == InitSweep /\ [][NextSweep]_vars

\* ------------------------------------------------------------ C26

\* C26: a step of the anonymous-session sweep or of the retention purge
\* leaves the room online sets, the uid-to-socket map, the sockets and every
\* room's online list as they were; an anonymous principal the sweep
\* deactivated while connected keeps its socket and its place in the online
\* list at least until its credential is resolved again
C26SweepsLeavePresence ==
  /\ [][(Sweep \/ \E old \in SUBSET messages : CleanupOldMessages(old))
         => /\ UNCHANGED <<onlineUsers, userSockets, socks, hs, emitted>>
            /\ \A r \in Rooms : ListOnline(r)' = ListOnline(r)]_vars
  /\ [](\A a \in hist.swept :
          /\ ~anonymous_users[a].is_active
          /\ HasSocket(a)
          /\ socks[userSockets[a]].state = "open"
          /\ Contains(ListOnline("R1"), a))

\* the sweep deactivated a1 while it was connected, the purge removed the
\* deleted message 1, and a1 is still connected and listed
C26Witness ==
  /\ "a1" \in hist.swept
  /\ ~anonymous_users["a1"].is_active
  /\ \A m \in messages : m.id # 1
  /\ files["f1"].is_expired
  /\ Contains(ListOnline("R1"), "a1")
  /\ socks["c3"].state = "open"


\* ------------------------------------------------------------ rejected sends

\* u2 and the anonymous a1 (muted since its creation) send to the room they
\* are in and to the other one, valid and empty texts, with and without a
\* reply target; u2 also sends over HTTP
NextReject ==
  \/ \E c \in {"c2", "c3"}, r \in Rooms, content \in Contents, reply \in {NoId, 1} :
       SendMessage(c, r, content, reply)
  \/ \E c \in {"c2", "c3"} : SendActivity(c)
  \/ \E c \in {"c2", "c3"} : SendMuteRecord(c)
  \/ \E c \in {"c2", "c3"} : SendMuteAnon(c)
  \/ \E c \in {"c2", "c3"} : SendReply(c)
  \/ \E c \in {"c2", "c3"} : SendInsert(c)
  \/ \E c \in {"c2", "c3"} : SendPost(c)
  \/ \E content \in Contents, reply \in {NoId, 1} : HttpSend("u2", "R1", content, reply)

SpecReject == InitSend /\ [][NextReject]_vars

\* ------------------------------------------------------------ C27

\* the reasons a send is turned away for before anything is persisted
Rejections == {"NotInRoom", "Muted", "Invalid", "NoReplyTarget"}

\* the events a step has emitted
Emitted1 == {i \in 1..Len(emitted') : i > Len(emitted)}

\* C27: a step that rejects a send for one of these reasons emits one event,
\* the error, to the socket of the sender and to nobody else, and persists
\* nothing; an HTTP send that is refused emits nothing; and every
\* new-message event carries the id of a persisted row, each id once, so no
\* rejected send is ever broadcast
C27RejectionNotBroadcast ==
  /\ [][\A i \in Emitted1 :
          (emitted'[i].type = "error" /\ emitted'[i].list[1] \in Rejections)
            => /\ Emitted1 = {i}
               /\ emitted'[i].to = {c \in Conns : socks[c].uid = emitted'[i].uid}
               /\ Cardinality(emitted'[i].to) = 1
               /\ messages' = messages]_vars
  /\ [][(hist'.resp \in Rejections /\ calls' # calls /\ hs' = hs
         /\ Emitted1 = {})
        => messages' = messages]_vars
  /\ [](\A i, j \in 1..Len(emitted) :
          emitted[i].type = "new-message"
            => /\ emitted[i].list[1] \in MessageIds
               /\ (emitted[j].type = "new-message"
                   /\ emitted[j].list[1] = emitted[i].list[1]) => i = j)

\* a1's send was rejected as muted, u2's as not joined and as replying to a
\* message that does not exist; each error went to its sender only and no
\* new-message was emitted
C27Witness ==
  /\ \E i \in 1..Len(emitted) :
       /\ emitted[i].type = "error" /\ emitted[i].list[1] = "Muted"
       /\ emitted[i].to = {"c3"}
  /\ \E i \in 1..Len(emitted) :
       /\ emitted[i].type = "error" /\ emitted[i].list[1] = "NotInRoom"
       /\ emitted[i].to = {"c2"}
  /\ \E i \in 1..Len(emitted) :
       /\ emitted[i].type = "error" /\ emitted[i].list[1] = "NoReplyTarget"
       /\ emitted[i].to = {"c2"}
  /\ \A i \in 1..Len(emitted) : emitted[i].type # "new-message"


\* ------------------------------------------------------------ C28

\* the events that carry a snapshot of the online list
ListEvents == {"room-joined", "user-joined", "user-left"}

\* C28: the online list carried by a room-joined, user-joined or user-left
\* event holds exactly the principals of the room's registry set
\* (onlineUsers) at the moment the event is emitted
C28SnapshotIsCurrent ==
  [][\A i \in 1..Len(emitted') :
       (i > Len(emitted) /\ emitted'[i].type \in ListEvents)
         => \A r \in Rooms :
              emitted'[i].room = r
                => SeqToSet(emitted'[i].list) = SeqToSet(onlineUsers'[r])]_vars


\* ------------------------------------------------------------ C29

\* the send of socket c that is in flight carries a text payload that
\* validation refuses (empty text)
C29InvalidInFlight(c) ==
  /\ hs[c]["send"].pc # "idle"
  /\ hs[c]["send"].content = ""

SupersedeDurations == {1, 3}

\* the creator u1 mutes the member u2 again and again, time passes, u2 sends
NextSupersede ==
  \/ Tick
  \/ \E d \in SupersedeDurations : MuteUser("u1", "R1", "u2", d)
  \/ SendMessage("c2", "R1", "hi", NoId)
  \/ \E c \in Conns : SendActivity(c)
  \/ \E c \in Conns : SendMuteRecord(c)
  \/ \E c \in Conns : SendMuteAnon(c)
  \/ \E c \in Conns : SendInsert(c)
  \/ \E c \in Conns : SendPost(c)

SpecSupersede == InitSend /\ [][NextSupersede]_vars

\* ------------------------------------------------------------ C30

\* the active records of (r, uid) with the greatest created_at
C30Newest(uid, r) ==
  {i \in ActiveMuteIdx(uid, r) :
     \A j \in ActiveMuteIdx(uid, r) :
       user_mutes[j].created_at <= user_mutes[i].created_at}

\* the one most recently created active record of (r, uid) is in force
C30NewestInForce(uid, r) ==
  \E i \in C30Newest(uid, r) : now < user_mutes[i].mute_until

ReplyIds == {NoId, 1, 3}

\* u2 sends over its socket to R1 and over HTTP to either room, with and
\* without a reply target
NextReply ==
  \/ \E reply \in ReplyIds : SendMessage("c2", "R1", "hi", reply)
  \/ SendActivity("c2")
  \/ SendMuteRecord("c2")
  \/ SendMuteAnon("c2")
  \/ SendReply("c2")
  \/ SendInsert("c2")
  \/ SendPost("c2")
  \/ \E r \in Rooms, reply \in ReplyIds : HttpSend("u2", r, "hi", reply)

SpecReply == InitSend /\ [][NextReply]_vars

\* ------------------------------------------------------------ C31

\* C31: a send whose reply target id identifies no message of the same room
\* (an unknown id, or the id of a message of another room) is rejected with
\* the reply-target error and persists no row: the socket send when its
\* lookup finds nothing, the HTTP send as a whole; so every persisted reply
\* points to a message of its own room
C31ReplyTargetChecked ==
  /\ [][\A c \in Conns :
          ( /\ hs[c]["send"].pc = "reply"
            /\ hs'[c]["send"] # hs[c]["send"]
            /\ ~\E m \in messages :
                  m.id = hs[c]["send"].reply /\ m.chatroom_id = hs[c]["send"].room )
          => /\ hs'[c]["send"] = IdleFrame
             /\ messages' = messages
             /\ emitted' = Append(emitted,
                  ErrorEvent(c, hs[c]["send"].room, "NoReplyTarget"))]_vars
  /\ [][(calls' # calls /\ hs' = hs /\ hist'.resp = "NoReplyTarget")
          => messages' = messages]_vars
  /\ [](\A m \in messages :
          m.reply_to_message_id # NoId
            => \E t \in messages :
                 t.id = m.reply_to_message_id /\ t.chatroom_id = m.chatroom_id)

\* message 1 is in R1; a socket send with the unknown id 3 was turned away,
\* and an HTTP send to R2 naming message 1 was turned away: R2 has no row
C31Witness ==
  /\ \E m \in messages : m.id = 1 /\ m.chatroom_id = "R1"
  /\ \E i \in 1..Len(emitted) :
       /\ emitted[i].type = "error"
       /\ emitted[i].list[1] = "NoReplyTarget"
  /\ hist.resp = "NoReplyTarget"
  /\ ~\E m \in messages : m.chatroom_id = "R2"


\* ------------------------------------------------------------ the purge among transactions

\* the daily purge fires while u1 deletes messages and u2 posts
NextPurge ==
  \/ \E id \in {1, 2}, io \in {"ok", "fail"} : DeleteMessage("c1", "R1", id, io)
  \/ \E c \in Conns : DelRead(c)
  \/ \E c \in Conns : DelPerm(c)
  \/ \E c \in Conns : DelBegin(c)
  \/ \E c \in Conns : DelClear(c)
  \/ \E c \in Conns : DelFileGet(c)
  \/ \E c \in Conns : DelFileUpd(c)
  \/ \E c \in Conns : DelDelete(c)
  \/ \E c \in Conns : DelCommit(c)
  \/ \E c \in Conns : DelRollback(c)
  \/ HttpSend("u2", "R1", "hi", NoId)
  \/ \E old \in SUBSET messages : CleanupOldMessages(old)

SpecPurge == InitSweep /\ [][NextPurge]_vars

\* ------------------------------------------------------------ C32

\* a step of cleanupOldMessages: the only step of SpecPurge that is neither
\* a request (calls) nor a step of a handler in flight (hs)
C32PurgeStep == calls' = calls /\ hs' = hs

\* C32: the retention purge never removes a message that is not marked
\* deleted, and after it no purged file message has left its file attached
C32PurgeRemovesOnlyDeleted ==
  [][C32PurgeStep
       => \A m \in messages :
            (\A x \in messages' : x.id # m.id)
              => /\ m.is_deleted
                 /\ m.file_id # NULL
                      => /\ files'[m.file_id].is_expired
                         /\ files'[m.file_id].message_id = NoId]_vars


\* ------------------------------------------------------------ anonymous rejoin

\* a1 rejoins while time passes, the creator mutes and unmutes it and its
\* credential is used
NextReactivate ==
  \/ Tick
  \/ \E d \in Durations : MuteUser("u1", "R1", "a1", d)
  \/ UnmuteUser("u1", "R1", "a1")
  \/ Authenticate("a1")
  \/ \E r \in Rooms : Reactivate("a1", r)

SpecReactivate == InitAuth /\ [][NextReactivate]_vars

\* ------------------------------------------------------------ C33

\* C33: every reactivation of an anonymous principal for its room leaves
\* the record active with joinTime = now and muteUntil = now plus the full
\* anonymous mute duration, whatever the record held before; a
\* reactivation for another room changes nothing
C33ReactivationResets ==
  [][(calls' # calls /\ hist'.op = "rejoin")
       => \A a \in Anons :
            hist'.by = a
              => IF hist'.resp = "ok"
                 THEN /\ anonymous_users'[a].is_active
                      /\ anonymous_users'[a].join_time = now
                      /\ anonymous_users'[a].mute_until = now + muteDuration
                      /\ anonymous_users'[a].chatroom_id = anonymous_users[a].chatroom_id
                 ELSE anonymous_users' = anonymous_users]_vars

\* a1 was muted by the creator until a time later than a fresh anonymous
\* mute ends, then rejoined: its record carries the fresh, earlier muteUntil
C33Witness ==
  /\ hist.op = "rejoin" /\ hist.by = "a1" /\ hist.resp = "ok"
  /\ anonymous_users["a1"].is_active
  /\ anonymous_users["a1"].join_time = now
  /\ anonymous_users["a1"].mute_until = now + muteDuration
  /\ \E i \in 1..Len(user_mutes) :
       /\ user_mutes[i].user_uid = "a1"
       /\ user_mutes[i].mute_until > now + muteDuration


\* ------------------------------------------------------------ C34

\* C34: the operations that use the transaction are isolated from the
\* others on the connection: a deletion whose own BEGIN failed ends without
\* touching the open transaction of another or the tables, and the
\* rollback of a failed deletion keeps every message row that a send
\* inserted since that transaction began
C34TransactionsIsolated ==
  [][\A c \in Conns :
       (hs[c]["del"].pc = "rollback" /\ hs'[c]["del"].pc = "idle")
         => /\ hs[c]["del"].why = "begin"
                => (tx' = tx /\ messages' = messages /\ files' = files)
            /\ tx.active
                => \A m \in messages :
                     m.id >= tx.rows.nextId => \E n \in messages' : n.id = m.id]_vars


\* ------------------------------------------------------------ sends of every kind

\* the member u2 and the anonymous a1 (whose record is for R1) send on
\* their sockets; a1 also joins R2 and sends there, and over HTTP
NextKinds ==
  \/ Tick
  \/ JoinRoom("c3", "R2")
  \/ JoinInfo("c3")
  \/ JoinMember("c3")
  \/ JoinList("c3")
  \/ \E c \in {"c2", "c3"}, r \in Rooms, content \in Contents :
       SendMessage(c, r, content, NoId)
  \/ \E c \in {"c2", "c3"} : SendActivity(c)
  \/ \E c \in {"c2", "c3"} : SendMuteRecord(c)
  \/ \E c \in {"c2", "c3"} : SendMuteAnon(c)
  \/ \E c \in {"c2", "c3"} : SendInsert(c)
  \/ \E c \in {"c2", "c3"} : SendPost(c)
  \/ \E r \in Rooms : HttpSend("a1", r, "hi", NoId)

SpecKinds == InitSend /\ [][NextKinds]_vars

\* ------------------------------------------------------------ C35

\* C35: a send is all-or-nothing: when it ends with an error for the sender
\* it has persisted no row, and when it has persisted a row it ends with
\* the new-message broadcast of that row; an HTTP send answered with an
\* error has persisted no row
C35SendAllOrNothing ==
  /\ [][\A c \in Conns :
          (hs[c]["send"].pc = "post" /\ hs'[c]["send"].pc = "idle")
            => /\ Len(emitted') = Len(emitted) + 1
               /\ emitted'[Len(emitted')].type = "new-message"
               /\ emitted'[Len(emitted')].room = hs[c]["send"].room
               /\ emitted'[Len(emitted')].list[1] = hs[c]["send"].id]_vars
  /\ [][(calls' # calls /\ hs' = hs /\ hist'.resp # "ok") => messages' = messages]_vars


\* ------------------------------------------------------------ C36

\* C36: a connection is present in at most one room: once its handlers
\* have finished (and none of them ran while another was in flight) its
\* principal is in the online set of its current room only, and in none
\* after the connection has disconnected
C36AtMostOneRoom ==
  \A c \in Conns, r \in Rooms :
    ( /\ ~InFlight(c)
      /\ ~hist.raced[c]
      /\ socks[c].state # "new"
      /\ Contains(onlineUsers[r], uidOf(c)) )
    => (socks[c].state = "open" /\ socks[c].currentRoom = r)


\* ------------------------------------------------------------ C37

\* C37: when a connection has disconnected and its handlers have finished,
\* the last of them about room r, its principal is not in r's online set
\* and its membership of r is not online, also when the disconnect came
\* while the join of r was in progress
C37DisconnectDuringJoin ==
  \A c \in Conns, r \in Rooms :
    ( /\ socks[c].state = "closed"
      /\ ~InFlight(c)
      /\ hist.last[c][2] = r )
    => /\ ~Contains(onlineUsers[r], uidOf(c))
       /\ chatroom_members[<<r, uidOf(c)>>] # NoRow
            => chatroom_members[<<r, uidOf(c)>>].status # "online"


\* ------------------------------------------------------------ several connections

\* the principal behind each connection: u1 on two of them (two tabs)
MultiHolder == [c \in Conns |-> IF c = "c3" THEN "u2" ELSE "u1"]

\* u1 opens two connections and u2 one; each joins, leaves and disconnects
NextMulti ==
  \/ \E c \in Conns : Connect(c, MultiHolder[c])
  \/ \E c \in Conns : JoinRoom(c, "R1")
  \/ \E c \in Conns : JoinInfo(c)
  \/ \E c \in Conns : JoinMember(c)
  \/ \E c \in Conns : JoinList(c)
  \/ \E c \in Conns : LeaveRoom(c)
  \/ \E c \in Conns : Disconnect(c)
  \/ \E c \in Conns, k \in {"leave", "disc"} : LeaveOffline(c, k)
  \/ \E c \in Conns, k \in {"leave", "disc"} : LeaveList(c, k)

SpecMulti == Init /\ [][NextMulti]_vars

\* ------------------------------------------------------------ C38

\* connection c is joined to r: it is open, its last finished handler was
\* the join of r, and no handler of it is running or ever overlapped
C38JoinedTo(c, r) ==
  /\ socks[c].state = "open"
  /\ socks[c].currentRoom = r
  /\ hist.last[c] = <<"join", r>>
  /\ ~InFlight(c)
  /\ ~hist.raced[c]

\* C38: the online list of r holds a principal for as long as one of its
\* open connections is joined to r, whatever its other connections do
C38PresentWhileJoined ==
  \A c \in Conns, r \in Rooms :
    C38JoinedTo(c, r) => Contains(ListOnline(r), uidOf(c))


\* ------------------------------------------------------------ sends after a close

\* the creator closes R1 while the member u2 and the anonymous a1, joined
\* before, send on their sockets
NextShut ==
  \/ Tick
  \/ \E by \in {"u1", "u2"} : CloseChatroom(by, "R1")
  \/ \E c \in {"c2", "c3"} : SendMessage(c, "R1", "hi", NoId)
  \/ \E c \in {"c2", "c3"} : SendActivity(c)
  \/ \E c \in {"c2", "c3"} : SendMuteRecord(c)
  \/ \E c \in {"c2", "c3"} : SendMuteAnon(c)
  \/ \E c \in {"c2", "c3"} : SendInsert(c)
  \/ \E c \in {"c2", "c3"} : SendPost(c)

SpecShut == InitSend /\ [][NextShut]_vars

\* ------------------------------------------------------------ C39

\* C39: once a room is closed no message of a user or an anonymous
\* principal is persisted in it and no new-message is broadcast in it
C39ClosedRoomSilent ==
  [][\A r \in Rooms :
       ~chatrooms[r].is_active
         => /\ \A m \in messages' \ messages :
                 m.chatroom_id = r => m.sender_type = "system"
            /\ \A i \in 1..Len(emitted') :
                 (i > Len(emitted) /\ emitted'[i].type = "new-message")
                   => emitted'[i].room # r]_vars


\* ------------------------------------------------------------ sends after a kick

\* the creator kicks the member u2, whose socket is joined to R1; u2 sends
\* and joins again
NextEvict ==
  \/ \E by \in {"u1", "u2"} : KickUser(by, "R1", "u2")
  \/ SendMessage("c2", "R1", "hi", NoId)
  \/ SendActivity("c2")
  \/ SendMuteRecord("c2")
  \/ SendMuteAnon("c2")
  \/ SendInsert("c2")
  \/ SendPost("c2")
  \/ JoinRoom("c2", "R1")
  \/ JoinInfo("c2")
  \/ JoinMember("c2")
  \/ JoinList("c2")

SpecEvict == InitSend /\ [][NextEvict]_vars

\* ------------------------------------------------------------ C40

\* u was kicked from r and has not asked to join r since
C40KickedOut(r, u) ==
  /\ <<r, u>> \in hist.out
  /\ \A c \in Conns : socks[c].uid = u => hs[c]["join"].pc = "idle"

\* C40: after a kick and until the target joins again, the target is not
\* in the room's online list, its membership stays left, and no message of
\* it is persisted or broadcast in the room
C40KickedStaysOut ==
  /\ [](\A r \in Rooms, u \in Uids :
          C40KickedOut(r, u)
            => /\ ~Contains(ListOnline(r), u)
               /\ chatroom_members[<<r, u>>].status = "left")
  /\ [][\A r \in Rooms, u \in Uids :
          C40KickedOut(r, u)
            => /\ \A m \in messages' \ messages :
                    ~(m.chatroom_id = r /\ m.sender_uid = u)
               /\ \A i \in 1..Len(emitted') :
                    (i > Len(emitted) /\ emitted'[i].type = "new-message")
                      => ~(emitted'[i].room = r /\ emitted'[i].uid = u)]_vars

====
